---- MODULE Spec2Model ----
(***************************************************************************)
(* Model of the Slack <-> Claude Code relay: the text extractor            *)
(* (message_utils.py), the message classifier and notification batcher     *)
(* (claude_code_message_notifier.py) and the per-message steps of the      *)
(* processor that forward the batcher's output to the Slack thread         *)
(* (claude_code_processor.py, slack_message_handler.py).                   *)
(*                                                                         *)
(* A Python str is a sequence of one-character strings, so that strip(),   *)
(* startswith(), substring search, join and f-string formatting are        *)
(* computed character by character.  Optional[str] is <<>> for None and    *)
(* <<t>> for the str t.                                                     *)
(***************************************************************************)
EXTENDS Integers, Sequences, FiniteSets, TLC

(***************************************************************************)
(* Bounds of the model.                                                    *)
(***************************************************************************)
\* longest text enumerated exhaustively over BaseChars
MaxTextLen == 2
\* most content blocks in an AssistantMessage
MaxBlocks == 2
\* cap of the history counter of consecutive tool messages since construction
MaxRun == 12

(***************************************************************************)
(* Program constants.                                                      *)
(***************************************************************************)
\* claude_code_message_notifier.py:57  `self.tools_count % 10 == 0`
Threshold == 10

(***************************************************************************)
(* Strings.                                                                *)
(***************************************************************************)
None == <<>>
Some(t) == <<t>>
IsNone(o) == o = <<>>
Val(o) == o[1]

\* Python truthiness of a str / of an Optional[str]
Truthy(t) == Len(t) > 0
TruthyOpt(o) == (~IsNone(o)) /\ Truthy(Val(o))

Whitespace == {" ", "\n", "\t"}

RECURSIVE LStrip(_)
LStrip(t) ==
    IF Len(t) > 0 /\ Head(t) \in Whitespace THEN LStrip(Tail(t)) ELSE t

RECURSIVE RStrip(_)
RStrip(t) ==
    IF Len(t) > 0 /\ t[Len(t)] \in Whitespace
    THEN RStrip(SubSeq(t, 1, Len(t) - 1))
    ELSE t

\* str.strip()
Strip(t) == RStrip(LStrip(t))

\* str.startswith(p)
StartsWith(t, p) == Len(t) >= Len(p) /\ SubSeq(t, 1, Len(p)) = p

\* `p in t`
Contains(t, p) ==
    \E i \in 1..(Len(t) - Len(p) + 1) : SubSeq(t, i, i + Len(p) - 1) = p

DigitChars == <<"0", "1", "2", "3", "4", "5", "6", "7", "8", "9">>

\* str(n) / f"{n}" for an int n
RECURSIVE IntToStr(_)
IntToStr(n) ==
    IF n < 0 THEN <<"-">> \o IntToStr(0 - n)
    ELSE IF n < 10 THEN <<DigitChars[n + 1]>>
    ELSE IntToStr(n \div 10) \o <<DigitChars[(n % 10) + 1]>>

\* sep.join(parts)
RECURSIVE Join(_, _)
Join(sep, parts) ==
    IF Len(parts) = 0 THEN <<>>
    ELSE IF Len(parts) = 1 THEN parts[1]
    ELSE parts[1] \o sep \o Join(sep, Tail(parts))

\* the sequences over S of length at most n
SeqsUpTo(S, n) == UNION {[1..k -> S] : k \in 0..n}

(***************************************************************************)
(* String literals of the source.                                          *)
(***************************************************************************)
\* "Used tools " and " times" of f"Used tools {count} times"
S_UsedTools == <<"U", "s", "e", "d", " ", "t", "o", "o", "l", "s", " ">>
S_Times == <<" ", "t", "i", "m", "e", "s">>
\* "[Tool: " and " Input: " of _extract_tool_use_text
S_ToolOpen == <<"[", "T", "o", "o", "l", ":", " ">>
S_Input == <<" ", "I", "n", "p", "u", "t", ":", " ">>
\* "[Tool Result: " of _extract_tool_result_text
S_ToolResultOpen == <<"[", "T", "o", "o", "l", " ", "R", "e", "s", "u", "l", "t", ":", " ">>
\* "[System: " of _extract_system_message_text
S_SystemOpen == <<"[", "S", "y", "s", "t", "e", "m", ":", " ">>
\* "[Result: ", ", Duration: " and "ms, Turns: " of _extract_result_message_text
S_ResultOpen == <<"[", "R", "e", "s", "u", "l", "t", ":", " ">>
S_Duration == <<",", " ", "D", "u", "r", "a", "t", "i", "o", "n", ":", " ">>
S_MsTurns == <<"m", "s", ",", " ", "T", "u", "r", "n", "s", ":", " ">>
\* "[Unknown Message Type: " of _extract_unknown_message_text
S_UnknownOpen == <<"[", "U", "n", "k", "n", "o", "w", "n", " ", "M", "e", "s", "s", "a", "g", "e", " ", "T", "y", "p", "e", ":", " ">>
\* str(None)
S_NoneRepr == <<"N", "o", "n", "e">>
\* the substrings '"type":' and '"tool_use_id":' of _is_tools_message
S_TypeKey == <<"\"", "t", "y", "p", "e", "\"", ":">>
S_ToolUseIdKey == <<"\"", "t", "o", "o", "l", "_", "u", "s", "e", "_", "i", "d", "\"", ":">>
\* "[Auto-sent] " of add_auto_send_prefix
S_AutoSent == <<"[", "A", "u", "t", "o", "-", "s", "e", "n", "t", "]", " ">>

(***************************************************************************)
(* Python / JSON values carried by the SDK's messages.                     *)
(*   [py |-> "None"], [py |-> "int", n], [py |-> "str", s],                *)
(*   [py |-> "list", items], [py |-> "dict", items] with items a sequence  *)
(*   of [k |-> str, v |-> value].                                          *)
(***************************************************************************)
PyNone == [py |-> "None"]
PyInt(n) == [py |-> "int", n |-> n]
PyStr(t) == [py |-> "str", s |-> t]
PyList(xs) == [py |-> "list", items |-> xs]
PyDict(kvs) == [py |-> "dict", items |-> kvs]

\* isinstance(v, str), isinstance(v, list)
IsStr(v) == v.py = "str"
IsList(v) == v.py = "list"

\* bool(v)
PyTruthy(v) ==
    CASE v.py = "None" -> FALSE
      [] v.py = "int" -> v.n # 0
      [] v.py = "str" -> Len(v.s) > 0
      [] OTHER -> Len(v.items) > 0

\* the body of a JSON string: json's escapes of the characters of the model
RECURSIVE JsonEscape(_)
JsonEscape(t) ==
    IF Len(t) = 0 THEN <<>>
    ELSE (CASE Head(t) = "\"" -> <<"\\", "\"">>
            [] Head(t) = "\\" -> <<"\\", "\\">>
            [] Head(t) = "\n" -> <<"\\", "n">>
            [] Head(t) = "\t" -> <<"\\", "t">>
            [] OTHER -> <<Head(t)>>) \o JsonEscape(Tail(t))

JsonString(t) == <<"\"">> \o JsonEscape(t) \o <<"\"">>

\* level spaces-of-indent copies of " "
Spaces(n) == [i \in 1..n |-> " "]

\* json.dumps(v, ensure_ascii=False, indent=indent): indent = 0 stands for
\* indent=None (separators ", " and ": ", one line); indent > 0 puts every
\* item on its own line, indented by indent * depth, separated by ","
RECURSIVE json_dumps(_, _, _)
RECURSIVE JsonItems(_, _, _, _)
JsonItems(v, i, indent, depth) ==
    LET item == v.items[i]
        one == IF v.py = "dict"
               THEN JsonString(item.k) \o <<":", " ">> \o json_dumps(item.v, indent, depth)
               ELSE json_dumps(item, indent, depth)
        lead == IF indent = 0 THEN <<>> ELSE <<"\n">> \o Spaces(indent * depth)
        sep == IF indent = 0 THEN <<",", " ">> ELSE <<",">>
    IN  IF i > Len(v.items) THEN <<>>
        ELSE lead \o one \o (IF i < Len(v.items) THEN sep ELSE <<>>)
             \o JsonItems(v, i + 1, indent, depth)

json_dumps(v, indent, depth) ==
    LET open == IF v.py = "dict" THEN <<"{">> ELSE <<"[">>
        close == IF v.py = "dict" THEN <<"}">> ELSE <<"]">>
        tail == IF indent = 0 THEN <<>> ELSE <<"\n">> \o Spaces(indent * depth)
    IN  CASE v.py = "None" -> <<"n", "u", "l", "l">>
          [] v.py = "int" -> IntToStr(v.n)
          [] v.py = "str" -> JsonString(v.s)
          [] OTHER ->
               IF Len(v.items) = 0 THEN open \o close
               ELSE open \o JsonItems(v, 1, indent, depth + 1) \o tail \o close

\* str(v) of the values the model gives a UserMessage's content besides str
\* and list: None and an int
py_str(v) ==
    CASE v.py = "None" -> S_NoneRepr
      [] v.py = "int" -> IntToStr(v.n)
      [] v.py = "str" -> v.s

(***************************************************************************)
(* The SDK's messages and content blocks (claude_code_sdk.types).          *)
(* AssistantMessage.content is a Python list of blocks; UserMessage.content*)
(* is a str, a list or another value; SystemMessage and ResultMessage have *)
(* no attribute "content".  OtherMessage is an object of none of the four  *)
(* classes, with or without a "content" attribute.                         *)
(***************************************************************************)
TextBlock(t) == [type |-> "TextBlock", text |-> t]
ToolUseBlock(id, name, input) ==
    [type |-> "ToolUseBlock", id |-> id, name |-> name, input |-> input]
ToolResultBlock(content) == [type |-> "ToolResultBlock", content |-> content]

UserMessage(content) == [type |-> "UserMessage", content |-> content]
AssistantMessage(blocks) ==
    [type |-> "AssistantMessage", content |-> PyList(blocks)]
SystemMessage(subtype) == [type |-> "SystemMessage", subtype |-> subtype]
ResultMessage(subtype, duration_ms, num_turns, result) ==
    [type |-> "ResultMessage", subtype |-> subtype, duration_ms |-> duration_ms,
     num_turns |-> num_turns, result |-> result]
OtherMessage(type_name) == [type |-> "Other", type_name |-> type_name]
OtherMessageWithContent(type_name, content) ==
    [type |-> "Other", type_name |-> type_name, content |-> content]

\* hasattr(message, "content")
HasContent(message) == "content" \in DOMAIN message

(***************************************************************************)
(* message_utils.py: the text extractor.                                   *)
(***************************************************************************)
extract_tool_use_text(tool_block, include_tool_info) ==
    IF ~include_tool_info THEN None
    ELSE LET tool_info == S_ToolOpen \o tool_block.name \o <<"(">>
                          \o tool_block.id \o <<")", "]">>
         IN  IF PyTruthy(tool_block.input)
             THEN Some(tool_info \o S_Input \o json_dumps(tool_block.input, 0, 0))
             ELSE Some(tool_info)

extract_tool_result_text(result_block, include_tool_info) ==
    IF ~(PyTruthy(result_block.content) /\ include_tool_info) THEN None
    ELSE IF IsStr(result_block.content)
         THEN Some(S_ToolResultOpen \o result_block.content.s \o <<"]">>)
         ELSE Some(S_ToolResultOpen \o json_dumps(result_block.content, 0, 0)
                   \o <<"]">>)

extract_content_block_text(content_block, include_tool_info) ==
    CASE content_block.type = "TextBlock" -> Some(content_block.text)
      [] content_block.type = "ToolUseBlock" ->
           extract_tool_use_text(content_block, include_tool_info)
      [] content_block.type = "ToolResultBlock" ->
           extract_tool_result_text(content_block, include_tool_info)
      [] OTHER -> None

\* the loop of _extract_assistant_message_text: the truthy block texts, in order
RECURSIVE TextParts(_, _)
TextParts(blocks, include_tool_info) ==
    IF Len(blocks) = 0 THEN <<>>
    ELSE LET block_text == extract_content_block_text(Head(blocks), include_tool_info)
         IN  (IF TruthyOpt(block_text) THEN <<Val(block_text)>> ELSE <<>>)
             \o TextParts(Tail(blocks), include_tool_info)

\* mutant of _extract_assistant_message_text: the parts are joined with " "
extract_assistant_message_text_SpaceJoin(message, include_tool_info) ==
    LET text_parts == TextParts(message.content.items, include_tool_info)
    IN  IF Len(text_parts) > 0 THEN Some(Join(<<" ">>, text_parts)) ELSE None

extract_assistant_message_text(message, include_tool_info) ==
    LET text_parts == TextParts(message.content.items, include_tool_info)
    IN  IF Len(text_parts) > 0 THEN Some(Join(<<"\n">>, text_parts)) ELSE None

extract_user_message_text(message) ==
    IF IsStr(message.content) THEN Some(message.content.s)
    ELSE IF IsList(message.content) THEN Some(json_dumps(message.content, 2, 0))
    ELSE Some(py_str(message.content))

extract_system_message_text(message, include_tool_info) ==
    IF include_tool_info
    THEN Some(S_SystemOpen \o message.subtype \o <<"]">>)
    ELSE None

extract_result_message_text(message, include_tool_info) ==
    IF TruthyOpt(message.result) THEN message.result
    ELSE IF include_tool_info
    THEN Some(S_ResultOpen \o message.subtype \o S_Duration
              \o IntToStr(message.duration_ms) \o S_MsTurns
              \o IntToStr(message.num_turns) \o <<"]">>)
    ELSE None

extract_unknown_message_text(message, include_tool_info) ==
    IF include_tool_info
    THEN Some(S_UnknownOpen \o message.type_name \o <<"]">>)
    ELSE None

extract_message_text(message, include_tool_info) ==
    CASE message.type = "UserMessage" -> extract_user_message_text(message)
      [] message.type = "AssistantMessage" ->
           extract_assistant_message_text(message, include_tool_info)
      [] message.type = "SystemMessage" ->
           extract_system_message_text(message, include_tool_info)
      [] message.type = "ResultMessage" ->
           extract_result_message_text(message, include_tool_info)
      [] OTHER -> extract_unknown_message_text(message, include_tool_info)

(***************************************************************************)
(* claude_code_message_notifier.py: classifier and notification batcher.   *)
(* The methods are operators from the counter before the call to           *)
(* [tools_count |-> the counter after it, ret |-> the value returned].     *)
(***************************************************************************)
\* f"Used tools {count} times"
UsedToolsMsg(count) == S_UsedTools \o IntToStr(count) \o S_Times

\* any(isinstance(block, (ToolUseBlock, ToolResultBlock)) for block in message.content)
has_tool_blocks(message) ==
    \E i \in 1..Len(message.content.items) :
        message.content.items[i].type \in {"ToolUseBlock", "ToolResultBlock"}

\* mutant of is_tools_message: only the text is looked at, not the blocks
\* nor the shape of the content
is_tools_message_TextOnly(message, message_text) ==
    IF TruthyOpt(message_text)
       /\ (\/ StartsWith(Strip(Val(message_text)), <<"[">>)
           \/ StartsWith(Strip(Val(message_text)), <<"{">>)
           \/ Contains(Val(message_text), S_TypeKey)
           \/ Contains(Val(message_text), S_ToolUseIdKey))
    THEN TRUE
    ELSE IF IsNone(message_text) THEN TRUE
    ELSE FALSE

\* mutant of is_tools_message: any message with a content attribute is a
\* tool message, whatever the content is
is_tools_message_AnyContent(message, message_text) ==
    IF message.type = "AssistantMessage" /\ has_tool_blocks(message) THEN TRUE
    ELSE IF HasContent(message) THEN TRUE
    ELSE IF TruthyOpt(message_text)
            /\ (\/ StartsWith(Strip(Val(message_text)), <<"[">>)
                \/ StartsWith(Strip(Val(message_text)), <<"{">>)
                \/ Contains(Val(message_text), S_TypeKey)
                \/ Contains(Val(message_text), S_ToolUseIdKey))
    THEN TRUE
    ELSE IF IsNone(message_text) THEN TRUE
    ELSE FALSE

\* mutant of is_tools_message: a message without text is a normal message
is_tools_message_NoneIsContent(message, message_text) ==
    IF message.type = "AssistantMessage" /\ has_tool_blocks(message) THEN TRUE
    ELSE IF HasContent(message) /\ IsList(message.content) THEN TRUE
    ELSE IF TruthyOpt(message_text)
            /\ (\/ StartsWith(Strip(Val(message_text)), <<"[">>)
                \/ StartsWith(Strip(Val(message_text)), <<"{">>)
                \/ Contains(Val(message_text), S_TypeKey)
                \/ Contains(Val(message_text), S_ToolUseIdKey))
    THEN TRUE
    ELSE FALSE

\* mutant of is_tools_message: the text is not sniffed for JSON
is_tools_message_NoSniff(message, message_text) ==
    IF message.type = "AssistantMessage" /\ has_tool_blocks(message) THEN TRUE
    ELSE IF HasContent(message) /\ IsList(message.content) THEN TRUE
    ELSE IF IsNone(message_text) THEN TRUE
    ELSE FALSE

is_tools_message(message, message_text) ==
    IF message.type = "AssistantMessage" /\ has_tool_blocks(message) THEN TRUE
    ELSE IF HasContent(message) /\ IsList(message.content) THEN TRUE
    ELSE IF TruthyOpt(message_text)
            /\ (\/ StartsWith(Strip(Val(message_text)), <<"[">>)
                \/ StartsWith(Strip(Val(message_text)), <<"{">>)
                \/ Contains(Val(message_text), S_TypeKey)
                \/ Contains(Val(message_text), S_ToolUseIdKey))
    THEN TRUE
    ELSE IF IsNone(message_text) THEN TRUE
    ELSE FALSE

\* mutants of handle_tools_message: the reset at the threshold is forgotten;
\* every tool message is notified; the counter is decremented
handle_tools_message_NoReset(tools_count_in) ==
    LET incremented == tools_count_in + 1
    IN  IF incremented % Threshold = 0
        THEN [tools_count |-> incremented, ret |-> <<UsedToolsMsg(incremented)>>]
        ELSE [tools_count |-> incremented, ret |-> <<>>]

handle_tools_message_NotifyEach(tools_count_in) ==
    LET incremented == tools_count_in + 1
    IN  [tools_count |-> incremented % Threshold,
         ret |-> <<UsedToolsMsg(incremented)>>]

handle_tools_message_Decrement(tools_count_in) ==
    LET decremented == tools_count_in - 1
    IN  IF decremented % Threshold = 0
        THEN [tools_count |-> 0, ret |-> <<UsedToolsMsg(decremented)>>]
        ELSE [tools_count |-> decremented, ret |-> <<>>]

\* the mutant of _handle_tools_message that flushes above the threshold
handle_tools_message_FlushAbove(tools_count_in) ==
    LET incremented == tools_count_in + 1
    IN  IF incremented > Threshold
        THEN [tools_count |-> 0, ret |-> <<UsedToolsMsg(incremented)>>]
        ELSE [tools_count |-> incremented, ret |-> <<>>]

\* the mutant of _handle_tools_message that reports one event too few
handle_tools_message_UnderReport(tools_count_in) ==
    LET incremented == tools_count_in + 1
    IN  IF incremented % Threshold = 0
        THEN [tools_count |-> 0, ret |-> <<UsedToolsMsg(incremented - 1)>>]
        ELSE [tools_count |-> incremented, ret |-> <<>>]

handle_tools_message(tools_count_in) ==
    LET incremented == tools_count_in + 1
    IN  IF incremented % Threshold = 0
        THEN [tools_count |-> 0, ret |-> <<UsedToolsMsg(incremented)>>]
        ELSE [tools_count |-> incremented, ret |-> <<>>]

\* mutants of handle_non_tools_message: the counter is not reset after the
\* flush; the text is appended before the tool-count message
handle_non_tools_message_NoReset(tools_count_in, message_text) ==
    LET flushed == IF tools_count_in > 0
                   THEN <<UsedToolsMsg(tools_count_in)>>
                   ELSE <<>>
        text == IF TruthyOpt(message_text) THEN <<Val(message_text)>> ELSE <<>>
    IN  [tools_count |-> tools_count_in, ret |-> flushed \o text]

handle_non_tools_message_TextFirst(tools_count_in, message_text) ==
    LET flushed == IF tools_count_in > 0
                   THEN <<UsedToolsMsg(tools_count_in)>>
                   ELSE <<>>
        text == IF TruthyOpt(message_text) THEN <<Val(message_text)>> ELSE <<>>
    IN  [tools_count |-> IF tools_count_in > 0 THEN 0 ELSE tools_count_in,
         ret |-> text \o flushed]

handle_non_tools_message(tools_count_in, message_text) ==
    LET flushed == IF tools_count_in > 0
                   THEN <<UsedToolsMsg(tools_count_in)>>
                   ELSE <<>>
        text == IF TruthyOpt(message_text) THEN <<Val(message_text)>> ELSE <<>>
    IN  [tools_count |-> IF tools_count_in > 0 THEN 0 ELSE tools_count_in,
         ret |-> flushed \o text]

\* the mutant of process_message that forwards the stripped text
process_message_StripsText(tools_count_in, message) ==
    LET message_text == extract_message_text(message, FALSE)
    IN  IF is_tools_message(message, message_text)
        THEN handle_tools_message(tools_count_in)
        ELSE handle_non_tools_message(tools_count_in,
                 IF IsNone(message_text) THEN None
                 ELSE Some(Strip(Val(message_text))))

\* the mutant of process_message that also forwards the text of a message
\* it classifies Tool
process_message_ForwardsToolText(tools_count_in, message) ==
    LET message_text == extract_message_text(message, FALSE)
        full == extract_message_text(message, TRUE)
    IN  IF is_tools_message(message, message_text)
        THEN LET r == handle_tools_message(tools_count_in)
             IN  [tools_count |-> r.tools_count,
                  ret |-> r.ret \o (IF TruthyOpt(full) THEN <<Val(full)>> ELSE <<>>)]
        ELSE handle_non_tools_message(tools_count_in, message_text)

process_message(tools_count_in, message) ==
    LET message_text == extract_message_text(message, FALSE)
    IN  IF is_tools_message(message, message_text)
        THEN handle_tools_message(tools_count_in)
        ELSE handle_non_tools_message(tools_count_in, message_text)

\* mutants of get_pending_tools_notification: the counter is reported off by
\* one; it is not reset; it is reset without a notification
get_pending_tools_notification_OffByOne(tools_count_in) ==
    IF tools_count_in > 0
    THEN [tools_count |-> 0, ret |-> Some(UsedToolsMsg(tools_count_in - 1))]
    ELSE [tools_count |-> tools_count_in, ret |-> None]

get_pending_tools_notification_NoReset(tools_count_in) ==
    IF tools_count_in > 0
    THEN [tools_count |-> tools_count_in, ret |-> Some(UsedToolsMsg(tools_count_in))]
    ELSE [tools_count |-> tools_count_in, ret |-> None]

get_pending_tools_notification_Silent(tools_count_in) ==
    [tools_count |-> 0, ret |-> None]

get_pending_tools_notification(tools_count_in) ==
    IF tools_count_in > 0
    THEN [tools_count |-> 0, ret |-> Some(UsedToolsMsg(tools_count_in))]
    ELSE [tools_count |-> tools_count_in, ret |-> None]

reset_count(tools_count_in) == [tools_count |-> 0, ret |-> None]

(***************************************************************************)
(* slack_message_handler.py: one send to the thread.                       *)
(***************************************************************************)
\* slack_message_handler.py:61  `text[:50]`
LogPrefixLen == 50

add_auto_send_prefix(message) == S_AutoSent \o message

\* send_thread_reply(text): chat_postMessage is called with the prefixed text;
\* it returns (ok) or raises (~ok), and the exception is caught and logged.
\* The value is the call the Slack client received, the log lines written,
\* and whether an exception leaves the function: `except Exception` returns
\* None, so none does.
send_thread_reply(text, ok) ==
    [posted |-> [text |-> add_auto_send_prefix(text), ok |-> ok],
     raised |-> FALSE,
     log |-> IF ok
             THEN <<[level |-> "debug", event |-> "sent_thread_reply",
                     text |-> SubSeq(text, 1, IF Len(text) < LogPrefixLen
                                              THEN Len(text) ELSE LogPrefixLen)]>>
             ELSE <<[level |-> "error", event |-> "error_sending_thread_reply",
                     text |-> <<>>]>>]

(***************************************************************************)
(* claude_code_processor.py: the per-message step and the final flush.     *)
(* The value is the notifier's result plus the calls the Slack client      *)
(* received (posted) and the log lines written (log), in program order.    *)
(***************************************************************************)
\* the loop `for msg in messages_to_send` of _process_claude_message;
\* oks[i] tells whether the i-th chat_postMessage returns or raises
RECURSIVE SendEach(_, _, _)
SendEach(messages_to_send, oks, i) ==
    IF i > Len(messages_to_send) THEN [posted |-> <<>>, log |-> <<>>]
    ELSE LET one == send_thread_reply(messages_to_send[i], oks[i])
             rest == SendEach(messages_to_send, oks, i + 1)
         IN  [posted |-> <<one.posted>> \o rest.posted,
              log |-> <<[level |-> "info", event |-> "claude_code",
                         text |-> messages_to_send[i]]>>
                      \o one.log \o rest.log]

\* the mutant of _process_claude_message that sends the returned messages
\* last first
process_claude_message_Reversed(tools_count_in, message) ==
    LET r == process_message(tools_count_in, message)
        n == Len(r.ret)
        reversed == [i \in 1..n |-> r.ret[n + 1 - i]]
    IN  {LET s == SendEach(reversed, oks, 1)
         IN  [tools_count |-> r.tools_count, ret |-> r.ret, posted |-> s.posted,
              log |-> s.log]
         : oks \in [1..n -> BOOLEAN]}

\* the mutant of _process_claude_message that writes the tools/metadata
\* line for every message
process_claude_message_AlwaysAudit(tools_count_in, message) ==
    LET r == process_message(tools_count_in, message)
    IN  {LET s == SendEach(r.ret, oks, 1)
         IN  [tools_count |-> r.tools_count, ret |-> r.ret, posted |-> s.posted,
              log |-> s.log \o <<[level |-> "debug", event |-> "tools_metadata",
                                  text |-> <<>>]>>]
         : oks \in [1..Len(r.ret) -> BOOLEAN]}

\* the mutant of _process_claude_message that puts the counter back when a
\* send fails
process_claude_message_RestoreOnFailure(tools_count_in, message) ==
    LET r == process_message(tools_count_in, message)
    IN  {LET s == SendEach(r.ret, oks, 1)
         IN  [tools_count |-> IF \E i \in DOMAIN oks : ~oks[i]
                              THEN tools_count_in ELSE r.tools_count,
              ret |-> r.ret, posted |-> s.posted,
              log |-> IF Len(r.ret) = 0
                      THEN s.log \o <<[level |-> "debug", event |-> "tools_metadata",
                                       text |-> <<>>]>>
                      ELSE s.log]
         : oks \in [1..Len(r.ret) -> BOOLEAN]}

\* the outcomes of _process_claude_message: one for every way the sends
\* of the returned messages can succeed or fail.  The debug line written when
\* nothing is returned names the message's class; the name is left out here.
process_claude_message(tools_count_in, message) ==
    LET r == process_message(tools_count_in, message)
    IN  {LET s == SendEach(r.ret, oks, 1)
         IN  [tools_count |-> r.tools_count, ret |-> r.ret, posted |-> s.posted,
              log |-> IF Len(r.ret) = 0
                      THEN s.log \o <<[level |-> "debug", event |-> "tools_metadata",
                                       text |-> <<>>]>>
                      ELSE s.log]
         : oks \in [1..Len(r.ret) -> BOOLEAN]}

\* the mutant of _send_pending_notification that takes the pending
\* notification and does not send it
send_pending_notification_Drop(tools_count_in) ==
    LET r == get_pending_tools_notification(tools_count_in)
    IN  {[tools_count |-> r.tools_count, ret |-> r.ret,
          posted |-> <<>>, log |-> <<>>]}

\* the outcomes of _send_pending_notification
send_pending_notification(tools_count_in) ==
    LET r == get_pending_tools_notification(tools_count_in)
    IN  IF TruthyOpt(r.ret)
        THEN {LET s == SendEach(<<Val(r.ret)>>, oks, 1)
              IN  [tools_count |-> r.tools_count, ret |-> r.ret,
                   posted |-> s.posted, log |-> s.log]
              : oks \in [1..1 -> BOOLEAN]}
        ELSE {[tools_count |-> r.tools_count, ret |-> r.ret,
               posted |-> <<>>, log |-> <<>>]}

\* ClaudeCodeMessageNotifier.__init__
notifier_init == [tools_count |-> 0, ret |-> None]

(***************************************************************************)
(* Exceptions.  An exception is its class, str(error) and, for             *)
(* ProcessError, exit_code.  The classes are the ones claude_code_processor *)
(* imports from claude_code_sdk and the built-in ones that reach its        *)
(* handlers; ExcBases is the base class of each.                           *)
(***************************************************************************)
Exc(cls, message, exit_code) ==
    [cls |-> cls, message |-> message, exit_code |-> exit_code]

NoError == Exc("NoError", <<>>, PyNone)

ExcBases ==
    [CLINotFoundError |-> "CLIConnectionError",
     CLIConnectionError |-> "ClaudeSDKError",
     CLIJSONDecodeError |-> "ClaudeSDKError",
     ProcessError |-> "ClaudeSDKError",
     ClaudeSDKError |-> "Exception",
     ValueError |-> "Exception",
     TypeError |-> "Exception",
     RuntimeError |-> "Exception"]

\* isinstance(error, target), as an except clause tests it
RECURSIVE IsInstance(_, _)
IsInstance(cls, target) ==
    \/ cls = target
    \/ cls \in DOMAIN ExcBases /\ IsInstance(ExcBases[cls], target)

N_ValueError ==
    <<"V", "a", "l", "u", "e", "E", "r", "r", "o", "r">>
N_TypeError ==
    <<"T", "y", "p", "e", "E", "r", "r", "o", "r">>
N_RuntimeError ==
    <<"R", "u", "n", "t", "i", "m", "e", "E", "r", "r", "o", "r">>
N_CLIJSONDecodeError ==
    <<"C", "L", "I", "J", "S", "O", "N", "D", "e", "c", "o", "d", "e", "E",
      "r", "r", "o", "r">>
N_CLIConnectionError ==
    <<"C", "L", "I", "C", "o", "n", "n", "e", "c", "t", "i", "o", "n", "E",
      "r", "r", "o", "r">>
N_CLINotFoundError ==
    <<"C", "L", "I", "N", "o", "t", "F", "o", "u", "n", "d", "E", "r", "r",
      "o", "r">>
N_ProcessError ==
    <<"P", "r", "o", "c", "e", "s", "s", "E", "r", "r", "o", "r">>

\* type(error).__name__
TypeName(cls) ==
    CASE cls = "ValueError" -> N_ValueError
      [] cls = "TypeError" -> N_TypeError
      [] cls = "RuntimeError" -> N_RuntimeError
      [] cls = "CLIJSONDecodeError" -> N_CLIJSONDecodeError
      [] cls = "CLIConnectionError" -> N_CLIConnectionError
      [] cls = "CLINotFoundError" -> N_CLINotFoundError
      [] cls = "ProcessError" -> N_ProcessError

(***************************************************************************)
(* configuration_manager.py: the channel configuration.  A dict is a       *)
(* function from its keys to Python values.                                *)
(***************************************************************************)
EmptyDict == [k \in {} |-> PyNone]

\* d.get(k): None when the key is absent
DictGet(d, k) == IF k \in DOMAIN d THEN d[k] ELSE PyNone

\* d.get(k, {}) for a dict of dicts
DictGetDict(d, k) == IF k \in DOMAIN d THEN d[k] ELSE EmptyDict

\* {**a, **b}
DictMerge(a, b) ==
    [k \in (DOMAIN a) \cup (DOMAIN b) |-> IF k \in DOMAIN b THEN b[k] ELSE a[k]]

get_channel_config(channel_configs_in, channel_id) ==
    LET default_config == DictGetDict(channel_configs_in, "default")
        channel_specific ==
            DictGetDict(DictGetDict(channel_configs_in, "channels"), channel_id)
    IN  DictMerge(default_config, channel_specific)

S_MissingCwd ==
    <<"M", "i", "s", "s", "i", "n", "g", " ", "r", "e", "q", "u", "i", "r",
      "e", "d", " ", "'", "c", "w", "d", "'", " ", "c", "o", "n", "f", "i",
      "g", "u", "r", "a", "t", "i", "o", "n", " ", "f", "o", "r", " ", "c",
      "h", "a", "n", "n", "e", "l", " ">>
S_MissingPermissionMode ==
    <<"M", "i", "s", "s", "i", "n", "g", " ", "r", "e", "q", "u", "i", "r",
      "e", "d", " ", "'", "p", "e", "r", "m", "i", "s", "s", "i", "o", "n",
      "_", "m", "o", "d", "e", "'", " ", "c", "o", "n", "f", "i", "g", "u",
      "r", "a", "t", "i", "o", "n", " ", "f", "o", "r", " ", "c", "h", "a",
      "n", "n", "e", "l", " ">>

\* the mutant of validate_channel_config that tests only that the keys exist
validate_channel_config_KeysOnly(channel_configs_in, channel_id, channel_text) ==
    LET config == get_channel_config(channel_configs_in, channel_id)
    IN  IF "cwd" \notin DOMAIN config
        THEN Exc("ValueError", S_MissingCwd \o channel_text, PyNone)
        ELSE IF "permission_mode" \notin DOMAIN config
        THEN Exc("ValueError", S_MissingPermissionMode \o channel_text, PyNone)
        ELSE NoError

\* validate_channel_config: the ValueError it raises, or NoError.
\* channel_text is the channel id as the f-string renders it.
validate_channel_config(channel_configs_in, channel_id, channel_text) ==
    LET config == get_channel_config(channel_configs_in, channel_id)
    IN  IF ~PyTruthy(DictGet(config, "cwd"))
        THEN Exc("ValueError", S_MissingCwd \o channel_text, PyNone)
        ELSE IF ~PyTruthy(DictGet(config, "permission_mode"))
        THEN Exc("ValueError", S_MissingPermissionMode \o channel_text, PyNone)
        ELSE NoError

\* str(error) of the TypeError that Path() raises for an int
S_PathTypeError ==
    <<"e", "x", "p", "e", "c", "t", "e", "d", " ", "s", "t", "r", ",", " ",
      "b", "y", "t", "e", "s", " ", "o", "r", " ", "o", "s", ".", "P", "a",
      "t", "h", "L", "i", "k", "e", " ", "o", "b", "j", "e", "c", "t", ",",
      " ", "n", "o", "t", " ", "i", "n", "t">>

\* _create_claude_code_options: the exception it raises (NoError: none) and
\* the required options it builds.  Path(config["cwd"]) raises TypeError when
\* cwd is not a string.
create_claude_code_options(channel_configs_in, channel_id, channel_text) ==
    LET config == get_channel_config(channel_configs_in, channel_id)
        invalid == validate_channel_config(channel_configs_in, channel_id,
                                           channel_text)
    IN  IF invalid # NoError
        THEN [exc |-> invalid, options |-> EmptyDict]
        ELSE IF ~IsStr(config["cwd"])
        THEN [exc |-> Exc("TypeError", S_PathTypeError, PyNone),
              options |-> EmptyDict]
        ELSE [exc |-> NoError,
              options |-> [cwd |-> config["cwd"],
                           permission_mode |-> config["permission_mode"]]]

(***************************************************************************)
(* slack_message_handler.py: completion, error details, error messages.    *)
(* Each value is the calls the Slack client received and the log lines.    *)
(* A character outside ASCII, and the backquote, is the one-element text  *)
(* that names its code point: "U+2705".                                    *)
(***************************************************************************)
S_CompletionMsg ==
    <<"U+2705", " ", "C", "l", "a", "u", "d", "e", " ", "C", "o", "d", "e",
      " ", "p", "r", "o", "c", "e", "s", "s", "i", "n", "g", " ", "c", "o",
      "m", "p", "l", "e", "t", "e", "d">>

\* the mutant of send_completion_notification that only writes the log line
send_completion_notification_LogOnly(message_count, ok) ==
    [posted |-> <<>>,
     log |-> <<[level |-> "info", event |-> "completion_sent",
                text |-> IntToStr(message_count)]>>]

send_completion_notification(message_count, ok) ==
    LET s == send_thread_reply(S_CompletionMsg, ok)
    IN  [posted |-> <<s.posted>>,
         log |-> s.log \o <<[level |-> "info", event |-> "completion_sent",
                             text |-> IntToStr(message_count)]>>]

S_TracebackHead ==
    <<"T", "r", "a", "c", "e", "b", "a", "c", "k", " ", "(", "m", "o", "s",
      "t", " ", "r", "e", "c", "e", "n", "t", " ", "c", "a", "l", "l", " ",
      "l", "a", "s", "t", ")", ":", "\n">>

\* create_error_details; context is None when the caller gave none (or an
\* empty one), and then the dict has no "context" key
create_error_details(error, function_name, context) ==
    [error_type |-> TypeName(error.cls),
     error_message |-> error.message,
     traceback |-> S_TracebackHead \o TypeName(error.cls) \o <<":", " ">>
                   \o error.message,
     function |-> function_name,
     context |-> IF TruthyOpt(context) THEN context ELSE None]

S_DetailHead ==
    <<"U+1F6A8", " ", "*", "*", "A", "n", " ", "e", "r", "r", "o", "r", " ",
      "o", "c", "c", "u", "r", "r", "e", "d", "*", "*", "\n", "\n", "*", "*",
      "E", "r", "r", "o", "r", " ", "T", "y", "p", "e", "*", "*", ":", " ">>
S_DetailMessage ==
    <<"\n", "*", "*", "E", "r", "r", "o", "r", " ", "M", "e", "s", "s", "a",
      "g", "e", "*", "*", ":", " ">>
S_DetailLocation ==
    <<"\n", "*", "*", "L", "o", "c", "a", "t", "i", "o", "n", "*", "*", ":",
      " ">>
S_DetailDetails ==
    <<"\n", "\n", "*", "*", "D", "e", "t", "a", "i", "l", "s", "*", "*", ":",
      "\n", "U+0060", "U+0060", "U+0060", "\n">>
S_DetailLogFile ==
    <<"\n", "U+0060", "U+0060", "U+0060", "\n", "\n", "D", "e", "t", "a", "i", "l", "e",
      "d", " ", "s", "t", "a", "c", "k", " ", "t", "r", "a", "c", "e", " ",
      "h", "a", "s", " ", "b", "e", "e", "n", " ", "l", "o", "g", "g", "e",
      "d", " ", "t", "o", " ", "t", "h", "e", " ", "l", "o", "g", " ", "f",
      "i", "l", "e", ".", "\n", "L", "o", "g", " ", "f", "i", "l", "e", ":",
      " ", "U+0060", "l", "o", "g", "s", "/", "s", "l", "a", "c", "k", "_", "m",
      "o", "n", "i", "t", "o", "r", "_">>
S_DetailLogExt ==
    <<".", "l", "o", "g", "U+0060">>
S_NoContext ==
    <<"N", "o", " ", "c", "o", "n", "t", "e", "x", "t", " ", "i", "n", "f",
      "o", "r", "m", "a", "t", "i", "o", "n", " ", "a", "v", "a", "i", "l",
      "a", "b", "l", "e">>

\* the f-string of send_detailed_error_to_slack; date is
\* datetime.now().strftime("%Y%m%d")
DetailedErrorText(error_details, date) ==
    S_DetailHead \o error_details.error_type
    \o S_DetailMessage \o error_details.error_message
    \o S_DetailLocation \o error_details.function
    \o S_DetailDetails
    \o (IF IsNone(error_details.context) THEN S_NoContext
        ELSE Val(error_details.context))
    \o S_DetailLogFile \o date \o S_DetailLogExt

S_SimpleErrorHead ==
    <<"A", "n", " ", "e", "r", "r", "o", "r", " ", "o", "c", "c", "u", "r", "r",
      "e", "d", ":", " ">>

\* the f-string of the fallback
SimpleErrorText(error_details) ==
    S_SimpleErrorHead \o error_details.error_type \o <<" ", "-", " ">>
    \o error_details.error_message

\* send_detailed_error_to_slack: the try block posts the detailed message;
\* when an exception leaves send_thread_reply the except block posts the
\* fallback.  oks[1] and oks[2] tell whether the chat_postMessage of the
\* detailed message and of the fallback return or raise.
send_detailed_error_to_slack(error_details, date, oks) ==
    LET s == send_thread_reply(DetailedErrorText(error_details, date), oks[1])
        f == send_thread_reply(SimpleErrorText(error_details), oks[2])
    IN  IF s.raised
        THEN [posted |-> <<s.posted, f.posted>>,
              log |-> s.log
                      \o <<[level |-> "error",
                            event |-> "failed_to_send_detailed_error",
                            text |-> <<>>]>>
                      \o f.log
                      \o (IF f.raised
                          THEN <<[level |-> "critical",
                                  event |-> "failed_to_send_simple_error",
                                  text |-> <<>>]>>
                          ELSE <<>>)]
        ELSE [posted |-> <<s.posted>>,
              log |-> s.log \o <<[level |-> "info", event |-> "detailed_error_sent",
                                  text |-> error_details.error_type]>>]

\* the mutant of send_claude_code_error_message that only logs
send_claude_code_error_message_Silent(error_type, custom_message, ok) ==
    [posted |-> <<>>,
     log |-> <<[level |-> "error", event |-> error_type,
                text |-> custom_message]>>]

send_claude_code_error_message(error_type, custom_message, ok) ==
    LET s == send_thread_reply(custom_message, ok)
    IN  [posted |-> <<s.posted>>,
         log |-> s.log \o <<[level |-> "error", event |-> error_type,
                             text |-> custom_message]>>]

(***************************************************************************)
(* claude_code_processor.py: the error handlers.                           *)
(***************************************************************************)
S_JsonErrorMsg ==
    <<"U+26A0", "U+FE0F", " ", "A", " ", "d", "a", "t", "a", " ", "p", "a",
      "r", "s", "i", "n", "g", " ", "e", "r", "r", "o", "r", " ", "o", "c",
      "c", "u", "r", "r", "e", "d", " ", "d", "u", "r", "i", "n", "g", " ",
      "p", "r", "o", "c", "e", "s", "s", "i", "n", "g", ",", " ", "b", "u",
      "t", " ", "p", "a", "r", "t", "i", "a", "l", " ", "r", "e", "s", "u",
      "l", "t", "s", " ", "w", "i", "l", "l", " ", "b", "e", " ", "p", "r",
      "o", "v", "i", "d", "e", "d", ".">>
S_ConnectionErrorMsg ==
    <<"U+274C", " ", "A", "n", " ", "e", "r", "r", "o", "r", " ", "o", "c",
      "c", "u", "r", "r", "e", "d", " ", "c", "o", "n", "n", "e", "c", "t",
      "i", "n", "g", " ", "t", "o", " ", "C", "l", "a", "u", "d", "e", " ",
      "C", "o", "d", "e", ".", " ", "P", "l", "e", "a", "s", "e", " ", "w",
      "a", "i", "t", " ", "a", "n", "d", " ", "t", "r", "y", " ", "a", "g",
      "a", "i", "n", ".">>
S_CliNotFoundMsg ==
    <<"U+274C", " ", "C", "l", "a", "u", "d", "e", " ", "C", "o", "d", "e",
      " ", "C", "L", "I", " ", "n", "o", "t", " ", "f", "o", "u", "n", "d",
      ".", " ", "P", "l", "e", "a", "s", "e", " ", "c", "h", "e", "c", "k",
      " ", "t", "h", "e", " ", "i", "n", "s", "t", "a", "l", "l", "a", "t",
      "i", "o", "n", ".">>
S_ProcessErrorHead ==
    <<"U+26A0", "U+FE0F", " ", "A", "n", " ", "e", "r", "r", "o", "r", " ",
      "o", "c", "c", "u", "r", "r", "e", "d", " ", "i", "n", " ", "t", "h",
      "e", " ", "C", "l", "a", "u", "d", "e", " ", "C", "o", "d", "e", " ",
      "p", "r", "o", "c", "e", "s", "s", " ", "(", "e", "x", "i", "t", " ",
      "c", "o", "d", "e", ":", " ">>
S_ProcessErrorTail ==
    <<")", ".", " ", "P", "a", "r", "t", "i", "a", "l", " ", "r", "e", "s",
      "u", "l", "t", "s", " ", "w", "i", "l", "l", " ", "b", "e", " ", "p",
      "r", "o", "v", "i", "d", "e", "d", ".">>

handle_json_decode_error(error, message_count, ok) ==
    LET s == send_claude_code_error_message("JSON parsing error",
                                            S_JsonErrorMsg, ok)
    IN  [posted |-> s.posted,
         log |-> <<[level |-> "error", event |-> "json_parsing_error",
                    text |-> error.message],
                   [level |-> "info", event |-> "processed_before_error",
                    text |-> IntToStr(message_count)]>> \o s.log]

handle_connection_error(error, ok) ==
    send_claude_code_error_message("connection error", S_ConnectionErrorMsg, ok)

handle_cli_not_found_error(error, ok) ==
    send_claude_code_error_message("CLI not found", S_CliNotFoundMsg, ok)

\* the mutant of _handle_process_error that leaves the exit code out
handle_process_error_NoExitCode(error, message_count, ok) ==
    send_claude_code_error_message("process error",
        S_ProcessErrorHead \o S_ProcessErrorTail, ok)

handle_process_error(error, message_count, ok) ==
    LET s == send_claude_code_error_message("process error",
                 S_ProcessErrorHead \o py_str(error.exit_code)
                 \o S_ProcessErrorTail, ok)
    IN  [posted |-> s.posted,
         log |-> <<[level |-> "error", event |-> "process_error",
                    text |-> error.message \o py_str(error.exit_code)],
                   [level |-> "info", event |-> "processed_before_error",
                    text |-> IntToStr(message_count)]>> \o s.log]

\* the except clauses of _execute_claude_code_query, tried in the order they
\* are written: the first one the error is an instance of handles it
ExceptClause(error) ==
    IF IsInstance(error.cls, "CLIJSONDecodeError") THEN "json_decode"
    ELSE IF IsInstance(error.cls, "CLIConnectionError") THEN "connection"
    ELSE IF IsInstance(error.cls, "CLINotFoundError") THEN "cli_not_found"
    ELSE IF IsInstance(error.cls, "ProcessError") THEN "process"
    ELSE "propagate"

\* the handler the clause calls
HandleUpstreamError(clause, error, message_count, ok) ==
    CASE clause = "json_decode" -> handle_json_decode_error(error, message_count, ok)
      [] clause = "connection" -> handle_connection_error(error, ok)
      [] clause = "cli_not_found" -> handle_cli_not_found_error(error, ok)
      [] clause = "process" -> handle_process_error(error, message_count, ok)

\* the mutant in which the connection clause has no `return messages`
FallsThrough_Connection(clause) ==
    clause \in {"json_decode", "process", "connection"}

\* after the handler: the connection and not-found clauses return messages,
\* the decode and process clauses fall through to line 201
FallsThrough(clause) == clause \in {"json_decode", "process"}

\* the mutant of _execute_claude_code_query that goes back into the loop
\* after a handler
AfterFailure_Resume(clause) ==
    IF clause = "propagate" THEN "raised" ELSE "stream"

\* where _execute_claude_code_query goes after the upstream raised: out of
\* the function with the exception, to line 201, or to `return messages`
AfterFailure(clause) ==
    IF clause = "propagate" THEN "raised"
    ELSE IF FallsThrough(clause) THEN "pending"
    ELSE "returned"

\* the mutant of process_with_claude_code without `except Exception`
OuterClause_ValueErrorOnly(error) ==
    IF IsInstance(error.cls, "ValueError") THEN "configuration" ELSE "propagate"

\* the except clauses of process_with_claude_code, in order; an exception
\* neither matches leaves the function
OuterClause(error) ==
    IF IsInstance(error.cls, "ValueError") THEN "configuration"
    ELSE IF IsInstance(error.cls, "Exception") THEN "general"
    ELSE "propagate"

S_FunctionName ==
    <<"_", "p", "r", "o", "c", "e", "s", "s", "_", "w", "i", "t", "h", "_",
      "c", "l", "a", "u", "d", "e", "_", "c", "o", "d", "e">>
S_ContextChannel ==
    <<"C", "h", "a", "n", "n", "e", "l", ":", " ">>
S_ContextUser ==
    <<",", " ", "U", "s", "e", "r", ":", " ">>

\* _handle_configuration_error
handle_configuration_error(error, channel_text, user_text, date, oks) ==
    LET error_details == create_error_details(error, S_FunctionName,
            Some(S_ContextChannel \o channel_text \o S_ContextUser \o user_text))
        s == send_detailed_error_to_slack(error_details, date, oks)
    IN  [posted |-> s.posted,
         log |-> <<[level |-> "error", event |-> "configuration_error",
                    text |-> error_details.error_message],
                   [level |-> "error", event |-> "full_traceback",
                    text |-> error_details.traceback]>> \o s.log]

\* _handle_general_error
handle_general_error(error, channel_text, user_text, date, oks) ==
    LET error_details == create_error_details(error, S_FunctionName,
            Some(S_ContextChannel \o channel_text \o S_ContextUser \o user_text))
        s == send_detailed_error_to_slack(error_details, date, oks)
    IN  [posted |-> s.posted,
         log |-> <<[level |-> "error", event |-> "error_processing",
                    text |-> error_details.error_type \o <<":", " ">>
                             \o error_details.error_message],
                   [level |-> "error", event |-> "full_traceback",
                    text |-> error_details.traceback]>> \o s.log]

(***************************************************************************)
(* Inputs.                                                                  *)
(***************************************************************************)
T_hello == <<"h", "e", "l", "l", "o">>
T_TypeText == <<"a", " ", "\"", "t", "y", "p", "e", "\"", ":", " ", "b">>
T_TypeNoColon == <<"a", " ", "\"", "t", "y", "p", "e", "\"", " ", "b">>
T_ToolUseIdText == <<"i", "d", " ", "\"", "t", "o", "o", "l", "_", "u", "s", "e", "_", "i", "d", "\"", ":", " ", "1">>
T_NewlineBrace == <<"\n", "{", "a">>
T_Bash == <<"B", "a", "s", "h">>
T_t1 == <<"t", "1">>
T_init == <<"i", "n", "i", "t">>
T_success == <<"s", "u", "c", "c", "e", "s", "s">>
T_type == <<"t", "y", "p", "e">>
T_cmd == <<"c", "m", "d">>

T_Bracket == <<" ", "[">>

BaseChars == {"a", " ", "{"}

\* the texts of UserMessage.content: every text over BaseChars up to
\* MaxTextLen, and texts with and without the sniffed substrings
Texts ==
    SeqsUpTo(BaseChars, MaxTextLen)
    \cup {T_hello, T_TypeText, T_TypeNoColon, T_ToolUseIdText, T_NewlineBrace,
          T_Bracket}

SampleDict == PyDict(<<[k |-> T_type, v |-> PyStr(<<"a">>)]>>)

Blocks ==
    {TextBlock(<<>>), TextBlock(<<"a">>), TextBlock(<<"b">>),
     ToolUseBlock(T_t1, T_Bash, PyDict(<<[k |-> T_cmd, v |-> PyStr(<<"a">>)]>>)),
     ToolResultBlock(PyStr(<<"a">>))}

Messages ==
    {UserMessage(PyStr(t)) : t \in Texts}
    \cup {UserMessage(PyList(<<>>)), UserMessage(PyList(<<PyStr(<<"a">>)>>)),
          UserMessage(PyList(<<SampleDict>>)),
          UserMessage(PyNone), UserMessage(PyInt(7))}
    \cup {AssistantMessage(bs) : bs \in SeqsUpTo(Blocks, MaxBlocks)}
    \cup {SystemMessage(T_init)}
    \cup {ResultMessage(T_success, 1200, 3, r) :
            r \in {None, Some(<<>>), Some(<<"a">>), Some(<<"{">>), Some(T_hello)}}
    \cup {OtherMessage(T_Bash), OtherMessageWithContent(T_Bash, PyList(<<>>))}

NoMessage == [type |-> "NoMessage"]

\* the session's channel, user and day, and the texts of its configuration
T_channel ==
    <<"C", "1">>
T_user ==
    <<"U", "1">>
T_date ==
    <<"2", "0", "2", "6", "0", "1", "0", "1">>
T_workdir ==
    <<"/", "w">>
T_mode ==
    <<"a", "c", "c", "e", "p", "t", "E", "d", "i", "t", "s">>
T_boom ==
    <<"b", "o", "o", "m">>

\* the key of T_channel in channel_configs["channels"]
ChannelId == "C1"

FullConfig == [cwd |-> PyStr(T_workdir), permission_mode |-> PyStr(T_mode)]

\* channel_configs as loaded: the "default" dict and the channel's own dict
DefaultConfigs ==
    {EmptyDict, [cwd |-> PyStr(T_workdir)], FullConfig}

ChannelSpecifics ==
    {EmptyDict, [cwd |-> PyStr(<<>>)], [permission_mode |-> PyStr(<<>>)],
     [cwd |-> PyInt(5)], [permission_mode |-> PyStr(T_mode)]}

ChannelConfigs ==
    {[default |-> d, channels |-> [C1 |-> c]] :
        d \in DefaultConfigs, c \in ChannelSpecifics}
    \cup {EmptyDict}

\* the messages the upstream of a session yields: a tool message, two
\* content messages, and a content message without text
M_tool ==
    AssistantMessage(<<ToolUseBlock(T_t1, T_Bash,
                                    PyDict(<<[k |-> T_cmd, v |-> PyStr(<<"a">>)]>>))>>)
M_hello == UserMessage(PyStr(T_hello))
M_result == ResultMessage(T_success, 1200, 3, Some(<<"a">>))
M_empty == UserMessage(PyStr(<<>>))

SessionMessages == {M_tool, M_hello, M_result, M_empty}

\* the exceptions the upstream raises while the stream is consumed
UpstreamErrors ==
    {Exc("CLIJSONDecodeError", T_boom, PyNone),
     Exc("CLIConnectionError", T_boom, PyNone),
     Exc("CLINotFoundError", T_boom, PyNone),
     Exc("ProcessError", T_boom, PyInt(1)),
     Exc("ProcessError", T_boom, PyInt(137)),
     Exc("ProcessError", T_boom, PyNone),
     Exc("RuntimeError", T_boom, PyNone),
     Exc("ValueError", T_boom, PyNone)}

\* int(text) of a text of digits
RECURSIVE StrToInt(_)
StrToInt(t) ==
    IF t = <<>> THEN 0
    ELSE 10 * StrToInt(SubSeq(t, 1, Len(t) - 1))
         + (CHOOSE d \in 0..9 : DigitChars[d + 1] = t[Len(t)])

\* the N of a "Used tools N times" text
ReportedCount(t) ==
    StrToInt(SubSeq(t, Len(S_UsedTools) + 1, Len(t) - Len(S_Times)))

\* the sum of the N of the "Used tools N times" texts of a list; no content
\* text of Messages starts with "Used tools "
RECURSIVE ReportedIn(_)
ReportedIn(texts) ==
    IF texts = <<>> THEN 0
    ELSE (IF StartsWith(Head(texts), S_UsedTools)
          THEN ReportedCount(Head(texts)) ELSE 0)
         + ReportedIn(Tail(texts))

(***************************************************************************)
(* State.                                                                   *)
(***************************************************************************)
VARIABLES
    tools_count,  \* ClaudeCodeMessageNotifier.tools_count
    op,           \* the last operation: "init", "process_message",
                  \* "get_pending_tools_notification" or "reset_count"
    prev_op,      \* the operation before the last one ("init" when none)
    msg,          \* the message of the last process_message, else NoMessage
    pre,          \* tools_count before the last operation
    ret,          \* the value the notifier returned to the last operation
    posted,       \* the chat_postMessage calls of the last operation, in order
    log,          \* the log lines of the last operation, in order
    toolRun,      \* k: the notifier has seen k tool messages and nothing else
                  \* since construction (MaxRun: that many or more); -1: otherwise
    runQuiet,     \* toolRun >= 0 and every one of those calls returned []
    unreported    \* Some(n): since construction the notifier has classified n
                  \* more messages Tool than its "Used tools N times" messages
                  \* report in sum; None: reset_count has discarded events

vars == <<tools_count, op, prev_op, msg, pre, ret, posted, log, toolRun, runQuiet,
          unreported>>

\* one session of process_with_claude_code
VARIABLES
    pc,              \* where the session is: "idle", "stream" (in the async for),
                     \* "pending" (before line 201), "returned" (the query
                     \* returned), "raised" (an exception reached the outer try),
                     \* "done"
    channel_configs, \* ConfigurationManager.channel_configs
    messages,        \* the list `messages` of _execute_claude_code_query
    error,           \* the exception raised in the session, else NoError
    returned,        \* the list _execute_claude_code_query returned, if it did
    sink,            \* every chat_postMessage call of the session, in order,
                     \* with the call site that made it
    emissions,       \* the list process_message returned for each message
    final_emission,  \* what get_pending_tools_notification returned, per call
    streams_started, \* the number of calls of query()
    failed_at        \* len(messages) when the upstream raised, else -1

svars == <<pc, channel_configs, messages, error, returned, sink, emissions,
           final_emission, streams_started, failed_at>>

\* sessions that run at the same time
VARIABLES
    notifiers,       \* the ClaudeCodeMessageNotifier objects constructed so
                     \* far: notifiers[ref] is the tools_count of object ref
    sess,            \* for each session, the locals of its
                     \* _execute_claude_code_query frame
    schedule         \* the session of each process_message call made so far,
                     \* in the order the calls were made

cvars == <<notifiers, sess, schedule>>

\* the monitor of slack_monitor.py
VARIABLES
    monitor          \* SlackSocketMonitor and the handler call in progress:
                     \* pc, channel_configs, the events delivered so far, the
                     \* chat_postMessage calls and query() calls made for each
                     \* (effects, in order), the exception raised, and the
                     \* number of messages the stream has yielded

mvars == <<monitor>>

allvars == <<vars, svars, cvars, mvars>>

\* a session that has not reached line 171
IdleSession ==
    [pc |-> "idle", notifier |-> 0, messages |-> <<>>, message |-> None,
     counters |-> <<>>, outbox |-> <<>>, sent |-> <<>>]

SessionIds == 1..2

Init ==
    /\ tools_count = notifier_init.tools_count
    /\ op = "init"
    /\ prev_op = "init"
    /\ msg = NoMessage
    /\ pre = 0
    /\ ret = None
    /\ posted = <<>>
    /\ log = <<>>
    /\ toolRun = 0
    /\ runQuiet = TRUE
    /\ unreported = Some(0)
    /\ pc = "idle"
    /\ channel_configs = EmptyDict
    /\ messages = <<>>
    /\ error = NoError
    /\ returned = None
    /\ sink = <<>>
    /\ emissions = <<>>
    /\ final_emission = <<>>
    /\ streams_started = 0
    /\ failed_at = -1
    /\ notifiers = <<>>
    /\ sess = [s \in SessionIds |-> IdleSession]
    /\ schedule = <<>>
    /\ monitor = [pc |-> "new", channel_configs |-> EmptyDict, events |-> <<>>,
                  effects |-> <<>>, error |-> NoError, messages |-> 0]

\* _execute_claude_code_query line 171: a session constructs its notifier
NewNotifier ==
    /\ tools_count' = notifier_init.tools_count
    /\ op' = "init"
    /\ prev_op' = "init"
    /\ msg' = NoMessage
    /\ pre' = notifier_init.tools_count
    /\ ret' = None
    /\ posted' = <<>>
    /\ log' = <<>>
    /\ toolRun' = 0
    /\ runQuiet' = TRUE
    /\ unreported' = Some(0)

\* _process_claude_message on one upstream message
ProcessClaudeMessage ==
    \E m \in Messages :
      \E r \in process_claude_message(tools_count, m) :
        LET tool == is_tools_message(m, extract_message_text(m, FALSE))
        IN  /\ tools_count' = r.tools_count
            /\ op' = "process_message"
            /\ prev_op' = op
            /\ msg' = m
            /\ pre' = tools_count
            /\ ret' = r.ret
            /\ posted' = r.posted
            /\ log' = r.log
            /\ toolRun' = IF tool /\ toolRun >= 0
                          THEN (IF toolRun < MaxRun THEN toolRun + 1 ELSE MaxRun)
                          ELSE -1
            /\ runQuiet' = (tool /\ toolRun >= 0 /\ runQuiet /\ r.ret = <<>>)
            /\ unreported' = IF IsNone(unreported) THEN None
                              ELSE Some(Val(unreported) + (IF tool THEN 1 ELSE 0)
                                        - ReportedIn(r.ret))

\* _send_pending_notification at the end of the stream
SendPendingNotification ==
    \E r \in send_pending_notification(tools_count) :
            /\ tools_count' = r.tools_count
            /\ op' = "get_pending_tools_notification"
            /\ prev_op' = op
            /\ msg' = NoMessage
            /\ pre' = tools_count
            /\ ret' = r.ret
            /\ posted' = r.posted
            /\ log' = r.log
            /\ toolRun' = -1
            /\ runQuiet' = FALSE
            /\ unreported' = IF IsNone(unreported) THEN None
                              ELSE Some(Val(unreported) - ReportedIn(r.ret))

\* ClaudeCodeMessageNotifier.reset_count
ResetCount ==
    LET r == reset_count(tools_count)
    IN  /\ tools_count' = r.tools_count
        /\ op' = "reset_count"
        /\ prev_op' = op
        /\ msg' = NoMessage
        /\ pre' = tools_count
        /\ ret' = r.ret
        /\ posted' = <<>>
        /\ log' = <<>>
        /\ toolRun' = -1
        /\ runQuiet' = FALSE
        /\ unreported' = IF tools_count = 0 THEN unreported ELSE None

\* the notifier on its own: no session runs
Next ==
    \/ NewNotifier /\ UNCHANGED <<svars, cvars, mvars>>
    \/ ProcessClaudeMessage /\ UNCHANGED <<svars, cvars, mvars>>
    \/ SendPendingNotification /\ UNCHANGED <<svars, cvars, mvars>>
    \/ ResetCount /\ UNCHANGED <<svars, cvars, mvars>>

Spec == Init /\ [][Next]_vars

(***************************************************************************)
(* One session: process_with_claude_code.  The only awaits that suspend    *)
(* are those of the upstream stream, so each step below runs from one      *)
(* `async for` step (or the call) to the next.                             *)
(***************************************************************************)
MaxEvents == 4

\* the calls of `posted`, each with its call site
Tagged(calls, src) == [i \in 1..Len(calls) |-> [text |-> calls[i].text, src |-> src]]

\* an operation of the session that is not one of the notifier
SessionOp(name, r) ==
    /\ op' = name
    /\ prev_op' = op
    /\ msg' = NoMessage
    /\ pre' = tools_count
    /\ ret' = None
    /\ posted' = r.posted
    /\ log' = r.log
    /\ UNCHANGED <<tools_count, toolRun, runQuiet, unreported>>

\* lines 123-128 and 168-179: the options are created; then the notifier is
\* constructed and query() is called, or the exception reaches the outer try
StartSession ==
    /\ pc = "idle"
    /\ \E cc \in ChannelConfigs :
         LET r == create_claude_code_options(cc, ChannelId, T_channel)
         IN  /\ channel_configs' = cc
             /\ IF r.exc = NoError
                THEN /\ NewNotifier
                     /\ pc' = "stream"
                     /\ streams_started' = streams_started + 1
                     /\ error' = error
                ELSE /\ SessionOp("create_claude_code_options",
                                  [posted |-> <<>>, log |-> <<>>])
                     /\ pc' = "raised"
                     /\ streams_started' = streams_started
                     /\ error' = r.exc
    /\ UNCHANGED <<messages, returned, sink, emissions, final_emission, failed_at>>

\* lines 179-183: the upstream yields a message; it is processed, its
\* emission is sent, and it is appended to messages
ConsumeMessage ==
    /\ pc = "stream"
    /\ Len(messages) < MaxEvents
    /\ ProcessClaudeMessage
    /\ msg' \in SessionMessages
    /\ messages' = Append(messages, msg')
    /\ emissions' = Append(emissions, ret')
    /\ sink' = sink \o Tagged(posted', "emission")
    /\ UNCHANGED <<pc, channel_configs, error, returned, final_emission,
                   streams_started, failed_at>>

\* line 179: the upstream is exhausted; the loop ends
StreamExhausted ==
    /\ pc = "stream"
    /\ pc' = "pending"
    /\ UNCHANGED <<vars, channel_configs, messages, error, returned, sink,
                   emissions, final_emission, streams_started, failed_at>>

\* lines 185-198: the upstream raises; the first matching clause sends its
\* message and returns or falls through, and an exception no clause matches
\* leaves _execute_claude_code_query
UpstreamFailure ==
    /\ pc = "stream"
    /\ \E e \in UpstreamErrors :
         LET clause == ExceptClause(e)
         IN  /\ error' = e
             /\ failed_at' = Len(messages)
             /\ pc' = AfterFailure(clause)
             /\ returned' = IF pc' = "returned" THEN Some(messages) ELSE returned
             /\ IF clause = "propagate"
                THEN /\ SessionOp("raise", [posted |-> <<>>, log |-> <<>>])
                     /\ sink' = sink
                ELSE \E ok \in BOOLEAN :
                       LET r == HandleUpstreamError(clause, e, Len(messages), ok)
                       IN  /\ SessionOp(clause, r)
                           /\ sink' = sink \o Tagged(r.posted, "remediation")
    /\ UNCHANGED <<channel_configs, messages, emissions, final_emission,
                   streams_started>>

\* lines 201-203: the pending notification is sent and messages is returned
SendPending ==
    /\ pc = "pending"
    /\ SendPendingNotification
    /\ final_emission' = Append(final_emission, ret')
    /\ sink' = sink \o Tagged(posted', "finalize")
    /\ returned' = Some(messages)
    /\ pc' = "returned"
    /\ UNCHANGED <<channel_configs, messages, error, emissions, streams_started,
                   failed_at>>

\* lines 136-138
SendCompletion ==
    /\ pc = "returned"
    /\ \E ok \in BOOLEAN :
         LET r == send_completion_notification(Len(Val(returned)), ok)
         IN  /\ SessionOp("send_completion_notification", r)
             /\ sink' = sink \o Tagged(r.posted, "completion")
    /\ pc' = "done"
    /\ UNCHANGED <<channel_configs, messages, error, returned, emissions,
                   final_emission, streams_started, failed_at>>

\* lines 140-143
HandleConfigurationError ==
    /\ pc = "raised"
    /\ OuterClause(error) = "configuration"
    /\ \E oks \in [1..2 -> BOOLEAN] :
         LET r == handle_configuration_error(error, T_channel, T_user, T_date, oks)
         IN  /\ SessionOp("handle_configuration_error", r)
             /\ sink' = sink \o Tagged(r.posted, "error")
    /\ pc' = "done"
    /\ UNCHANGED <<channel_configs, messages, error, returned, emissions,
                   final_emission, streams_started, failed_at>>

\* lines 144-145
HandleGeneralError ==
    /\ pc = "raised"
    /\ OuterClause(error) = "general"
    /\ \E oks \in [1..2 -> BOOLEAN] :
         LET r == handle_general_error(error, T_channel, T_user, T_date, oks)
         IN  /\ SessionOp("handle_general_error", r)
             /\ sink' = sink \o Tagged(r.posted, "error")
    /\ pc' = "done"
    /\ UNCHANGED <<channel_configs, messages, error, returned, emissions,
                   final_emission, streams_started, failed_at>>

SessionNext ==
    \/ StartSession /\ UNCHANGED <<cvars, mvars>>
    \/ ConsumeMessage /\ UNCHANGED <<cvars, mvars>>
    \/ StreamExhausted /\ UNCHANGED <<cvars, mvars>>
    \/ UpstreamFailure /\ UNCHANGED <<cvars, mvars>>
    \/ SendPending /\ UNCHANGED <<cvars, mvars>>
    \/ SendCompletion /\ UNCHANGED <<cvars, mvars>>
    \/ HandleConfigurationError /\ UNCHANGED <<cvars, mvars>>
    \/ HandleGeneralError /\ UNCHANGED <<cvars, mvars>>

SessionSpec == Init /\ [][SessionNext]_allvars

\* the event loop runs the coroutine until it returns: chat_postMessage is a
\* blocking call that returns or raises, and a finite stream yields, ends or
\* raises at every `async for` step, so a session that can step does
MaxFairEvents == 2

SessionFairNext ==
    \/ StartSession /\ UNCHANGED <<cvars, mvars>>
    \/ Len(messages) < MaxFairEvents /\ ConsumeMessage /\ UNCHANGED <<cvars, mvars>>
    \/ StreamExhausted /\ UNCHANGED <<cvars, mvars>>
    \/ UpstreamFailure /\ UNCHANGED <<cvars, mvars>>
    \/ SendPending /\ UNCHANGED <<cvars, mvars>>
    \/ SendCompletion /\ UNCHANGED <<cvars, mvars>>
    \/ HandleConfigurationError /\ UNCHANGED <<cvars, mvars>>
    \/ HandleGeneralError /\ UNCHANGED <<cvars, mvars>>

SessionFairSpec ==
    Init /\ [][SessionFairNext]_allvars /\ WF_allvars(SessionFairNext)

(***************************************************************************)
(* Two sessions at once.  Each is a call of _execute_claude_code_query     *)
(* whose stream ends normally; the steps of the two interleave between any *)
(* two statements that touch the notifier or the sink.  The processor, the *)
(* handler and the configuration are shared and are only read; the objects *)
(* a session writes are its notifier and its list of messages.             *)
(***************************************************************************)
MaxConcEvents == 2

ConcMessages == {M_tool, M_hello}

\* the mutant of line 171 in which the sessions use one notifier
AllocNotifier_Shared(heap) ==
    IF heap = <<>>
    THEN [heap |-> <<notifier_init.tools_count>>, ref |-> 1]
    ELSE [heap |-> heap, ref |-> 1]

\* line 171, ClaudeCodeMessageNotifier(): a new object, referred to by the
\* local `notifier` of the frame that constructed it
AllocNotifier(heap) ==
    [heap |-> Append(heap, notifier_init.tools_count), ref |-> Len(heap) + 1]

\* lines 170-171: the frame's list of messages and its notifier
ConcStart(s) ==
    /\ sess[s].pc = "idle"
    /\ LET a == AllocNotifier(notifiers)
       IN  /\ notifiers' = a.heap
           /\ sess' = [sess EXCEPT ![s].pc = "stream", ![s].notifier = a.ref]
    /\ UNCHANGED schedule

\* line 179 and _process_claude_message line 223: the upstream yields a
\* message and the session's notifier processes it
ConcProcess(s) ==
    /\ sess[s].pc = "stream"
    /\ Len(sess[s].messages) < MaxConcEvents
    /\ \E m \in ConcMessages :
         LET ref == sess[s].notifier
             r == process_message(notifiers[ref], m)
         IN  /\ notifiers' = [notifiers EXCEPT ![ref] = r.tools_count]
             /\ sess' = [sess EXCEPT ![s].pc = "sending",
                                     ![s].message = Some(m),
                                     ![s].counters = Append(@, r.tools_count),
                                     ![s].outbox = r.ret]
    /\ schedule' = Append(schedule, s)

\* _process_claude_message lines 226-231 and _send_pending_notification
\* lines 254-258: the next string is sent to the session's thread
ConcSend(s) ==
    /\ sess[s].pc \in {"sending", "finalizing"}
    /\ sess[s].outbox # <<>>
    /\ \E ok \in BOOLEAN :
         LET one == send_thread_reply(Head(sess[s].outbox), ok)
         IN  sess' = [sess EXCEPT ![s].outbox = Tail(@),
                                  ![s].sent = Append(@, one.posted.text)]
    /\ UNCHANGED <<notifiers, schedule>>

\* line 183: messages.append(message)
ConcAppend(s) ==
    /\ sess[s].pc = "sending"
    /\ sess[s].outbox = <<>>
    /\ sess' = [sess EXCEPT ![s].pc = "stream",
                            ![s].messages = Append(@, Val(sess[s].message)),
                            ![s].message = None]
    /\ UNCHANGED <<notifiers, schedule>>

\* line 179 and _send_pending_notification line 251: the stream is
\* exhausted and the session's notifier gives its pending notification
ConcFinalize(s) ==
    /\ sess[s].pc = "stream"
    /\ LET ref == sess[s].notifier
           r == get_pending_tools_notification(notifiers[ref])
       IN  /\ notifiers' = [notifiers EXCEPT ![ref] = r.tools_count]
           /\ sess' = [sess EXCEPT ![s].pc = "finalizing",
                                   ![s].counters = Append(@, r.tools_count),
                                   ![s].outbox = IF TruthyOpt(r.ret)
                                                 THEN <<Val(r.ret)>> ELSE <<>>]
    /\ UNCHANGED schedule

\* line 203: return messages
ConcReturn(s) ==
    /\ sess[s].pc = "finalizing"
    /\ sess[s].outbox = <<>>
    /\ sess' = [sess EXCEPT ![s].pc = "done"]
    /\ UNCHANGED <<notifiers, schedule>>

ConcNext ==
    \/ \E s \in SessionIds : ConcStart(s) /\ UNCHANGED <<vars, svars, mvars>>
    \/ \E s \in SessionIds : ConcProcess(s) /\ UNCHANGED <<vars, svars, mvars>>
    \/ \E s \in SessionIds : ConcSend(s) /\ UNCHANGED <<vars, svars, mvars>>
    \/ \E s \in SessionIds : ConcAppend(s) /\ UNCHANGED <<vars, svars, mvars>>
    \/ \E s \in SessionIds : ConcFinalize(s) /\ UNCHANGED <<vars, svars, mvars>>
    \/ \E s \in SessionIds : ConcReturn(s) /\ UNCHANGED <<vars, svars, mvars>>

ConcSpec == Init /\ [][ConcNext]_allvars

(***************************************************************************)
(* slack_monitor.py: the monitor.  It is a program of its own: it has its   *)
(* own copies of the configuration, send and error functions and calls     *)
(* query() itself, without a notifier.  Events are handled one at a time;   *)
(* a handler call keeps its state in locals.  Log lines are left out.      *)
(***************************************************************************)
MaxMonitorEvents == 2

MaxMonitorMessages == 1

\* the default of CLAUDE_USER_ID
CLAUDE_USER_ID ==
    <<"U", "0", "9", "2", "6", "E", "D", "6", "9", "N", "0">>

\* "acknowledged; processing starts"
S_Acknowledgement ==
    <<"U+6307", "U+793A", "U+3092", "U+78BA", "U+8A8D", "U+3057", "U+307E",
      "U+3057", "U+305F", "U+3002", "U+51E6", "U+7406", "U+3092", "U+958B",
      "U+59CB", "U+3057", "U+307E", "U+3059", ".", ".", ".">>

\* the message events delivered: bot_id and user are event.get(...), None
\* when the event has no such key
MonitorEvents ==
    {[bot_id |-> b, user |-> u] :
        b \in {None, Some(<<"B", "1">>)},
        u \in {None, Some(CLAUDE_USER_ID), Some(T_user)}}

\* channel_configs.json as loaded by __init__
MonitorConfigs ==
    {[default |-> FullConfig, channels |-> [C1 |-> EmptyDict]],
     [default |-> EmptyDict, channels |-> [C1 |-> [cwd |-> PyStr(T_workdir)]]],
     [default |-> [permission_mode |-> PyStr(T_mode)],
      channels |-> [C1 |-> [cwd |-> PyInt(5)]]]}

\* the mutant of handle_message that skips only events with a bot_id
SkipsEvent_BotOnly(event) == TruthyOpt(event.bot_id)

\* handle_message: event.get("bot_id") or event.get("user") == CLAUDE_USER_ID
SkipsEvent(event) ==
    TruthyOpt(event.bot_id) \/ event.user = Some(CLAUDE_USER_ID)

\* _add_auto_send_prefix of the monitor
monitor_add_auto_send_prefix(message) ==
    <<"U+3010", "U+81EA", "U+52D5", "U+9001", "U+4FE1", "U+3011">> \o message

\* _send_thread_reply: the call the client received for event n; an
\* exception of chat_postMessage is caught
MonitorSend(n, text, ok) ==
    [kind |-> "send", n |-> n, ok |-> ok,
     text |-> monitor_add_auto_send_prefix(text)]

\* the completion message
MonitorCompletionText ==
    <<"U+2705", " ", "C", "l", "a", "u", "d", "e", " ", "C", "o", "d", "e",
      "U+51E6", "U+7406", "U+304C", "U+5B8C", "U+4E86", "U+3057", "U+307E",
      "U+3057", "U+305F">>

\* the error_details of the except clauses of _process_with_claude_code and
\* the f-string of _send_detailed_error_to_slack
MonitorErrorText(exc, channel_text, user, date) ==
    LET error_type == IF IsInstance(exc.cls, "ValueError")
                      THEN <<"C", "o", "n", "f", "i", "g", "u", "r", "a", "t",
                             "i", "o", "n", " ", "E", "r", "r", "o", "r">>
                      ELSE TypeName(exc.cls)
        context == S_ContextChannel \o channel_text \o S_ContextUser
                   \o (IF IsNone(user) THEN S_NoneRepr ELSE Val(user))
    IN  <<"U+1F6A8", " ", "*", "*", "U+30A8", "U+30E9", "U+30FC", "U+304C",
          "U+767A", "U+751F", "U+3057", "U+307E", "U+3057", "U+305F", "*",
          "*", "\n", "\n", "*", "*", "U+30A8", "U+30E9", "U+30FC", "U+30BF",
          "U+30A4", "U+30D7", "*", "*", ":", " ">>
        \o error_type
        \o <<"\n", "*", "*", "U+30A8", "U+30E9", "U+30FC", "U+30E1",
             "U+30C3", "U+30BB", "U+30FC", "U+30B8", "*", "*", ":", " ">>
        \o exc.message
        \o <<"\n", "*", "*", "U+767A", "U+751F", "U+5834", "U+6240", "*",
             "*", ":", " ">>
        \o S_FunctionName
        \o <<"\n", "\n", "*", "*", "U+8A73", "U+7D30", "U+60C5", "U+5831",
             "*", "*", ":", "\n", "U+0060", "U+0060", "U+0060", "\n">>
        \o context
        \o <<"\n", "U+0060", "U+0060", "U+0060", "\n", "\n", "U+8A73",
             "U+7D30", "U+306A", "U+30B9", "U+30BF", "U+30C3", "U+30AF",
             "U+30C8", "U+30EC", "U+30FC", "U+30B9", "U+306F", "U+30ED",
             "U+30B0", "U+30D5", "U+30A1", "U+30A4", "U+30EB", "U+306B",
             "U+8A18", "U+9332", "U+3055", "U+308C", "U+3066", "U+3044",
             "U+307E", "U+3059", "U+3002", "\n", "U+30ED", "U+30B0",
             "U+30D5", "U+30A1", "U+30A4", "U+30EB", ":", " ", "U+0060", "l",
             "o", "g", "s", "/", "s", "l", "a", "c", "k", "_", "m", "o", "n",
             "i", "t", "o", "r", "_">>
        \o date
        \o <<".", "l", "o", "g", "U+0060">>

\* __init__: the channel configurations are loaded
MonitorInit ==
    /\ monitor.pc = "new"
    /\ \E cc \in MonitorConfigs :
         monitor' = [monitor EXCEPT !.pc = "idle", !.channel_configs = cc]

\* handle_message and _handle_message_async up to the acknowledgement: the
\* event is skipped, or the acknowledgement is sent to its thread
HandleMessage ==
    /\ monitor.pc = "idle"
    /\ Len(monitor.events) < MaxMonitorEvents
    /\ \E event \in MonitorEvents :
         LET n == Len(monitor.events) + 1
         IN  IF SkipsEvent(event)
             THEN monitor' = [monitor EXCEPT !.events = Append(@, event)]
             ELSE \E ok \in BOOLEAN :
                    monitor' = [monitor EXCEPT
                        !.events = Append(@, event),
                        !.effects = Append(@, MonitorSend(n, S_Acknowledgement, ok)),
                        !.error = NoError,
                        !.messages = 0,
                        !.pc = "process"]

\* _process_with_claude_code up to query(): the options are created, or
\* the exception goes to the except clauses
MonitorStartQuery ==
    /\ monitor.pc = "process"
    /\ LET r == create_claude_code_options(monitor.channel_configs, ChannelId,
                                           T_channel)
           n == Len(monitor.events)
       IN  IF r.exc = NoError
           THEN monitor' = [monitor EXCEPT
                    !.effects = Append(@, [kind |-> "query", n |-> n, ok |-> TRUE,
                                           text |-> <<>>]),
                    !.pc = "stream"]
           ELSE monitor' = [monitor EXCEPT !.error = r.exc, !.pc = "raised"]

\* the stream yields a message, which is logged and appended
MonitorMessage ==
    /\ monitor.pc = "stream"
    /\ monitor.messages < MaxMonitorMessages
    /\ monitor' = [monitor EXCEPT !.messages = @ + 1]

\* the stream is exhausted: the completion notification is sent
MonitorCompletion ==
    /\ monitor.pc = "stream"
    /\ \E ok \in BOOLEAN :
         monitor' = [monitor EXCEPT
             !.effects = Append(@, MonitorSend(Len(monitor.events),
                                               MonitorCompletionText, ok)),
             !.pc = "idle"]

\* the stream raises: a ValueError, an error of the SDK, or another
MonitorStreamRaises ==
    /\ monitor.pc = "stream"
    /\ \E e \in {x \in UpstreamErrors :
                    x.cls \in {"ValueError", "CLIConnectionError", "RuntimeError"}} :
         monitor' = [monitor EXCEPT !.error = e, !.pc = "raised"]

\* except ValueError / except Exception: the detailed error is sent
MonitorReportsError ==
    /\ monitor.pc = "raised"
    /\ LET n == Len(monitor.events)
       IN  \E ok \in BOOLEAN :
             monitor' = [monitor EXCEPT
                 !.effects = Append(@, MonitorSend(n,
                     MonitorErrorText(monitor.error, T_channel,
                                      monitor.events[n].user, T_date), ok)),
                 !.pc = "idle"]

MonitorNext ==
    \/ MonitorInit /\ UNCHANGED <<vars, svars, cvars>>
    \/ HandleMessage /\ UNCHANGED <<vars, svars, cvars>>
    \/ MonitorStartQuery /\ UNCHANGED <<vars, svars, cvars>>
    \/ MonitorMessage /\ UNCHANGED <<vars, svars, cvars>>
    \/ MonitorCompletion /\ UNCHANGED <<vars, svars, cvars>>
    \/ MonitorStreamRaises /\ UNCHANGED <<vars, svars, cvars>>
    \/ MonitorReportsError /\ UNCHANGED <<vars, svars, cvars>>

MonitorSpec == Init /\ [][MonitorNext]_allvars

(***************************************************************************)
(* Properties.  They read the last operation through op, msg, pre, ret and *)
(* posted.  No text of Messages starts with "Used tools ", so a tool-count *)
(* message in a returned list is told from a content text by its prefix.   *)
(***************************************************************************)
\* the text process_message extracted from the last message
LastText == extract_message_text(msg, FALSE)

\* the last operation was process_message on a message classified Tool / Content
LastIsTool == op = "process_message" /\ is_tools_message(msg, LastText)
LastIsContent == op = "process_message" /\ ~is_tools_message(msg, LastText)

IsToolCountMsg(t) == StartsWith(t, S_UsedTools)

\* "Used tools 10 times", "Used tools 3 times", "Used tools 4 times" spelled out
UsedTools10 == S_UsedTools \o <<"1", "0">> \o S_Times
UsedTools3 == S_UsedTools \o <<"3">> \o S_Times
UsedTools4 == S_UsedTools \o <<"4">> \o S_Times

\* C1: a Tool-classified process_message that brings the counter to 10 returns
\* exactly ["Used tools 10 times"] and leaves tools_count = 0; every other
\* Tool-classified call returns [] and leaves tools_count one higher.
C1_ThresholdFlush ==
    LastIsTool =>
        IF pre + 1 = 10
        THEN ret = <<UsedTools10>> /\ tools_count = 0
        ELSE ret = <<>> /\ tools_count = pre + 1

C1_Witness ==
    LastIsTool /\ pre = 9 /\ ret = <<UsedTools10>> /\ tools_count = 0

\* C2: from a fresh notifier, after N consecutive Tool-classified messages
\* with 1 <= N < 10, every one of the N calls returned [] and tools_count = N.
C2_QuietRun ==
    (toolRun >= 1 /\ toolRun < 10) => (runQuiet /\ tools_count = toolRun)

C2_Witness ==
    toolRun = 9 /\ runQuiet /\ tools_count = 9 /\ op = "process_message"

\* C3: a Content-classified process_message with text t at counter k returns
\* ["Used tools k times", t] if k > 0 and t non-empty, [t] if k = 0 and t
\* non-empty, ["Used tools k times"] if k > 0 and t empty, [] otherwise, and
\* leaves tools_count = 0.
C3_ContentTransition ==
    LastIsContent =>
        LET t == Val(LastText)
            k == pre
        IN  /\ ret = (CASE k > 0 /\ Len(t) > 0 -> <<UsedToolsMsg(k), t>>
                        [] k = 0 /\ Len(t) > 0 -> <<t>>
                        [] k > 0 /\ Len(t) = 0 -> <<UsedToolsMsg(k)>>
                        [] OTHER -> <<>>)
            /\ tools_count = 0

\* Tool, Tool, Tool, Content("hello") yields ["Used tools 3 times", "hello"]
C3_Witness ==
    /\ op = "process_message"
    /\ msg = UserMessage(PyStr(T_hello))
    /\ pre = 3
    /\ ret = <<UsedTools3, T_hello>>
    /\ tools_count = 0

\* C4: in every list process_message returns, a tool-count message is at an
\* earlier index than any content text, and the list holds at most one
\* tool-count message and at most one content text.
C4_ToolCountFirst ==
    op = "process_message" =>
        LET toolIdx == {i \in DOMAIN ret : IsToolCountMsg(ret[i])}
            textIdx == DOMAIN ret \ toolIdx
        IN  /\ Cardinality(toolIdx) <= 1
            /\ Cardinality(textIdx) <= 1
            /\ \A i \in toolIdx : \A j \in textIdx : i < j

C4_Witness ==
    /\ op = "process_message"
    /\ Len(ret) = 2
    /\ IsToolCountMsg(ret[1])
    /\ ~IsToolCountMsg(ret[2])

\* C5: get_pending_tools_notification at counter k > 0 returns
\* "Used tools k times" and sets tools_count to 0; at counter 0 it returns
\* None and leaves tools_count at 0.
C5_Finalize ==
    op = "get_pending_tools_notification" =>
        IF pre > 0
        THEN ret = Some(UsedToolsMsg(pre)) /\ tools_count = 0
        ELSE ret = None /\ tools_count = 0

C5_Witness ==
    /\ op = "get_pending_tools_notification"
    /\ pre = 4
    /\ ret = Some(UsedTools4)
    /\ tools_count = 0

\* C6: get_pending_tools_notification called twice in a row: the second call
\* returns None, sends nothing and leaves the counter as the first call left it.
C6_FinalizeIdempotent ==
    (op = "get_pending_tools_notification"
     /\ prev_op = "get_pending_tools_notification") =>
        (ret = None /\ tools_count = pre /\ posted = <<>>)

C6_Witness ==
    /\ op = "get_pending_tools_notification"
    /\ prev_op = "get_pending_tools_notification"
    /\ ret = None
    /\ tools_count = 0

\* C7: tools_count starts at 0 and is a non-negative integer in every state
\* reachable by process_message, get_pending_tools_notification and reset_count.
C7_NonNegative ==
    /\ tools_count \in Nat
    /\ op = "init" => tools_count = 0

C7_Witness ==
    op = "process_message" /\ pre = 8 /\ tools_count = 9

\* the last operation emitted the flush message "Used tools k times"
Emitted(k) == \E i \in DOMAIN ret : ret[i] = UsedToolsMsg(k)
EmittedAny == \E i \in DOMAIN ret : IsToolCountMsg(ret[i])

\* the counter went up by one on a Tool-classified event
CountedTool == LastIsTool /\ tools_count = pre + 1

\* the counter went to 0 together with the flush message reporting the value
\* the counter had when it was reset: pre + 1 on a Tool event, else pre
Flushed ==
    /\ tools_count = 0
    /\ IF LastIsTool THEN Emitted(pre + 1) ELSE pre > 0 /\ Emitted(pre)

\* C8 as claimed: the counter changes only by +1 on a Tool-classified event or
\* by going to 0 with the flush message reporting the pre-reset value, and no
\* operation zeroes a non-zero counter without emitting that message.
C8_OnlyTwoWays ==
    /\ tools_count # pre => (CountedTool \/ Flushed)
    /\ EmittedAny => Flushed

\* C8 as amended: the same, except that reset_count sets the counter to 0 and
\* emits nothing.
C8_OnlyTwoWaysOrReset ==
    /\ tools_count # pre =>
         \/ CountedTool
         \/ Flushed
         \/ (op = "reset_count" /\ tools_count = 0 /\ ret = None)
    /\ EmittedAny => Flushed

C8_Witness ==
    /\ op = "get_pending_tools_notification"
    /\ pre = 3
    /\ tools_count = 0
    /\ ret = Some(UsedTools3)

\* an AssistantMessage whose blocks are all TextBlocks
OnlyTextBlocks(m) ==
    /\ m.type = "AssistantMessage"
    /\ Len(m.content.items) > 0
    /\ \A i \in DOMAIN m.content.items : m.content.items[i].type = "TextBlock"

\* a plain non-empty text: not starting with [ or {, without "type": and
\* "tool_use_id":
PlainText(t) ==
    /\ Len(t) > 0
    /\ ~StartsWith(Strip(t), <<"[">>)
    /\ ~StartsWith(Strip(t), <<"{">>)
    /\ ~Contains(t, S_TypeKey)
    /\ ~Contains(t, S_ToolUseIdKey)

\* C9: an AssistantMessage of only TextBlocks with plain non-empty text is
\* classified Content: process_message returns a list ending with that text
\* and the text is sent to the thread.
C9_TextOnlyAssistantForwarded ==
    (op = "process_message" /\ OnlyTextBlocks(msg)
     /\ \A i \in DOMAIN msg.content.items : PlainText(msg.content.items[i].text)) =>
        /\ ~is_tools_message(msg, LastText)
        /\ Len(ret) > 0
        /\ ret[Len(ret)] = Val(LastText)
        /\ Len(posted) > 0
        /\ posted[Len(posted)].text = add_auto_send_prefix(Val(LastText))

\* an AssistantMessage with at least one ToolUseBlock or ToolResultBlock
WithToolBlock(m) ==
    /\ m.type = "AssistantMessage"
    /\ \E i \in DOMAIN m.content.items :
         m.content.items[i].type \in {"ToolUseBlock", "ToolResultBlock"}

\* C10: an AssistantMessage with at least one ToolUse or ToolResult block is
\* counted as one tool event whatever else it holds, and its text is never
\* forwarded: what is returned and sent is at most the tool-count message.
C10_ToolBlocksAreTool ==
    (op = "process_message" /\ WithToolBlock(msg)) =>
        /\ tools_count = (pre + 1) % 10
        /\ ret = IF (pre + 1) % 10 = 0 THEN <<UsedToolsMsg(pre + 1)>> ELSE <<>>
        /\ \A i \in DOMAIN ret :
             /\ Some(ret[i]) # extract_message_text(msg, TRUE)
             /\ Some(ret[i]) # extract_message_text(msg, FALSE)
        /\ Len(posted) = Len(ret)
        /\ \A i \in DOMAIN posted : posted[i].text = add_auto_send_prefix(ret[i])

C10_Witness ==
    /\ op = "process_message"
    /\ WithToolBlock(msg)
    /\ \E i \in DOMAIN msg.content.items :
         msg.content.items[i] = TextBlock(<<"a">>)
    /\ pre = 2
    /\ tools_count = 3
    /\ ret = <<>>
    /\ posted = <<>>

\* what one tool event does to the counter and what it returns
CountsOneToolEvent ==
    /\ tools_count = (pre + 1) % 10
    /\ ret = IF (pre + 1) % 10 = 0 THEN <<UsedToolsMsg(pre + 1)>> ELSE <<>>

\* no returned string is the text of the last message, with or without tool info
TextNotForwarded ==
    \A i \in DOMAIN ret :
        /\ Some(ret[i]) # extract_message_text(msg, TRUE)
        /\ Some(ret[i]) # extract_message_text(msg, FALSE)

\* C11: a message whose content field is a sequence is classified Tool: it
\* counts as one tool event and its rendering is never forwarded; a
\* UserMessage whose content is one plain text is not caught by this rule and
\* its text is returned.
C11_ListContentIsTool ==
    /\ (op = "process_message" /\ HasContent(msg) /\ msg.content.py = "list") =>
         (CountsOneToolEvent /\ TextNotForwarded)
    /\ (op = "process_message" /\ msg.type = "UserMessage"
        /\ msg.content.py = "str" /\ PlainText(msg.content.s)) =>
         (Len(ret) > 0 /\ ret[Len(ret)] = msg.content.s /\ tools_count = 0)

C11_Witness ==
    /\ op = "process_message"
    /\ msg = UserMessage(PyList(<<SampleDict>>))
    /\ pre = 2
    /\ tools_count = 3
    /\ ret = <<>>

\* C12: a message whose text extracted without tool info is None (System,
\* unknown types, Result without a result, Assistant without text parts) is
\* classified Tool and counts as one tool event.
C12_NoTextIsTool ==
    (op = "process_message" /\ extract_message_text(msg, FALSE) = None) =>
        (is_tools_message(msg, None) /\ CountsOneToolEvent)

C12_Witness ==
    /\ op = "process_message"
    /\ msg = SystemMessage(T_init)
    /\ pre = 2
    /\ tools_count = 3
    /\ ret = <<>>

\* the four Tool rules, stated on the message and its text without tool info
RuleToolBlocks(m) == WithToolBlock(m)
RuleListContent(m) == HasContent(m) /\ m.content.py = "list"
RuleAbsentText(m) == extract_message_text(m, FALSE) = None
RuleJsonText(m) ==
    /\ ~RuleAbsentText(m)
    /\ LET t == Val(extract_message_text(m, FALSE))
       IN  \/ StartsWith(Strip(t), <<"[">>)
           \/ StartsWith(Strip(t), <<"{">>)
           \/ Contains(t, S_TypeKey)
           \/ Contains(t, S_ToolUseIdKey)

\* C13: a message without tool blocks whose text, trimmed, starts with [ or {
\* or whose text contains "type": or "tool_use_id": is classified Tool; a
\* message is classified Content exactly when none of the four rules matches.
C13_ClassifierRules ==
    op = "process_message" =>
        /\ (~RuleToolBlocks(msg) /\ RuleJsonText(msg)) =>
             (LastIsTool /\ CountsOneToolEvent)
        /\ LastIsContent <=>
             ~(RuleToolBlocks(msg) \/ RuleListContent(msg)
               \/ RuleJsonText(msg) \/ RuleAbsentText(msg))

C13_Witness ==
    /\ op = "process_message"
    /\ msg = UserMessage(PyStr(T_TypeText))
    /\ pre = 2
    /\ tools_count = 3
    /\ ret = <<>>

\* the part a block contributes to the text of an AssistantMessage, if any
IncludedPart(block, include_tool_info) ==
    CASE block.type = "TextBlock" ->
           IF Len(block.text) > 0 THEN <<block.text>> ELSE <<>>
      [] block.type = "ToolUseBlock" ->
           IF include_tool_info
           THEN <<Val(extract_tool_use_text(block, TRUE))>>
           ELSE <<>>
      [] block.type = "ToolResultBlock" ->
           IF include_tool_info /\ PyTruthy(block.content)
           THEN <<Val(extract_tool_result_text(block, TRUE))>>
           ELSE <<>>

\* the included parts of blocks[1..n], in block order
RECURSIVE IncludedParts(_, _, _)
IncludedParts(blocks, n, include_tool_info) ==
    IF n = 0 THEN <<>>
    ELSE IncludedParts(blocks, n - 1, include_tool_info)
         \o IncludedPart(blocks[n], include_tool_info)

\* parts[1] "\n" parts[2] "\n" ... parts[n]
RECURSIVE NewlineJoined(_, _)
NewlineJoined(parts, n) ==
    IF n = 1 THEN parts[1]
    ELSE NewlineJoined(parts, n - 1) \o <<"\n">> \o parts[n]

ExpectedAssistantText(m, include_tool_info) ==
    LET parts == IncludedParts(m.content.items, Len(m.content.items),
                               include_tool_info)
    IN  IF Len(parts) = 0 THEN None ELSE Some(NewlineJoined(parts, Len(parts)))

\* C14: extract on an AssistantMessage returns the included parts of its
\* blocks joined with a newline in block order, and None when no part is
\* included; without tool info ToolUse and ToolResult blocks contribute nothing.
C14_AssistantExtract ==
    (op = "process_message" /\ msg.type = "AssistantMessage") =>
        /\ extract_message_text(msg, FALSE) = ExpectedAssistantText(msg, FALSE)
        /\ extract_message_text(msg, TRUE) = ExpectedAssistantText(msg, TRUE)
        /\ extract_message_text(msg, FALSE) =
             extract_message_text(
                 AssistantMessage(SelectSeq(msg.content.items,
                                            LAMBDA b : b.type = "TextBlock")),
                 TRUE)

\* two Text blocks "a" and "b" give "a\nb"
C14_Witness ==
    /\ op = "process_message"
    /\ msg = AssistantMessage(<<TextBlock(<<"a">>), TextBlock(<<"b">>)>>)
    /\ extract_message_text(msg, FALSE) = Some(<<"a", "\n", "b">>)
    /\ extract_message_text(msg, TRUE) = Some(<<"a", "\n", "b">>)

(***************************************************************************)
(* Properties of one session.  They read the session through sink,         *)
(* emissions, final_emission, messages, returned and error.                *)
(***************************************************************************)
\* the concatenation of a list of lists
RECURSIVE Flatten(_)
Flatten(lists) ==
    IF lists = <<>> THEN <<>> ELSE Head(lists) \o Flatten(Tail(lists))

\* the texts of the Optional values of a list that are not None
RECURSIVE Present(_)
Present(opts) ==
    IF opts = <<>> THEN <<>>
    ELSE (IF IsNone(Head(opts)) THEN <<>> ELSE <<Val(Head(opts))>>)
         \o Present(Tail(opts))

\* the texts the sink received from the call sites srcs, in order
RECURSIVE SinkFrom(_, _)
SinkFrom(calls, srcs) ==
    IF calls = <<>> THEN <<>>
    ELSE (IF Head(calls).src \in srcs THEN <<Head(calls).text>> ELSE <<>>)
         \o SinkFrom(Tail(calls), srcs)

\* the texts as the sink receives them
AsSent(texts) == [i \in 1..Len(texts) |-> S_AutoSent \o texts[i]]

AllSources == {"emission", "finalize", "remediation", "completion", "error"}

\* C15: in a session the sink receives, from the notifier, exactly the
\* strings of the emissions in event order, each emission in list order,
\* followed by the finalize emission: while the stream is being consumed
\* (before each next event) every string of every emission so far has been
\* sent and nothing of the finalize emission; and when a stream that did
\* not fail has returned, these are all the sends of the session.
C15_SinkOrder ==
    /\ SinkFrom(sink, {"emission", "finalize"})
         = AsSent(Flatten(emissions) \o Present(final_emission))
    /\ pc = "stream" =>
         /\ final_emission = <<>>
         /\ SinkFrom(sink, AllSources) = AsSent(Flatten(emissions))
    /\ (pc = "returned" /\ error = NoError) =>
         SinkFrom(sink, AllSources)
           = AsSent(Flatten(emissions) \o Present(final_emission))
    /\ Len(emissions) = Len(messages)

\* C15 witness: a returned session whose second event emitted two strings
\* and whose finalize emitted one
C15_Witness ==
    /\ pc = "returned"
    /\ error = NoError
    /\ messages = <<M_tool, M_hello, M_tool>>
    /\ emissions = <<<<>>, <<UsedToolsMsg(1), T_hello>>, <<>>>>
    /\ final_emission = <<Some(UsedToolsMsg(1))>>
    /\ Len(sink) = 3

\* the number of tool messages at the end of a list of messages
RECURSIVE TrailingTools(_)
TrailingTools(ms) ==
    IF ms = <<>> THEN 0
    ELSE LET m == ms[Len(ms)]
         IN  IF is_tools_message(m, extract_message_text(m, FALSE))
             THEN 1 + TrailingTools(SubSeq(ms, 1, Len(ms) - 1))
             ELSE 0

\* C16: when the stream is exhausted without failure, finalize is called
\* exactly once, after the loop; with k > 0 tool events pending its emission
\* "Used tools k times" is the last send, after every per-event send; with
\* none pending nothing is sent; and the counter is 0 from then on.
C16_FinalizeOnExhaustion ==
    /\ Len(final_emission) <= 1
    /\ (error = NoError /\ pc \in {"idle", "stream", "pending"}) =>
         final_emission = <<>>
    /\ (error = NoError /\ pc \in {"returned", "done"}) =>
         /\ Len(final_emission) = 1
         /\ tools_count = 0
    /\ (error = NoError /\ pc = "returned") =>
         LET k == TrailingTools(messages)
         IN  /\ op = "get_pending_tools_notification"
             /\ pre = k % Threshold
             /\ pre > 0 =>
                  /\ final_emission = <<Some(UsedToolsMsg(pre))>>
                  /\ Len(sink) = Len(Flatten(emissions)) + 1
                  /\ sink[Len(sink)]
                       = [text |-> S_AutoSent \o UsedToolsMsg(pre),
                          src |-> "finalize"]
             /\ pre = 0 =>
                  /\ final_emission = <<None>>
                  /\ Len(sink) = Len(Flatten(emissions))

\* C16 witness: a stream of a content message and two tool messages was
\* exhausted and "Used tools 2 times" was sent last
C16_Witness ==
    /\ pc = "returned"
    /\ error = NoError
    /\ messages = <<M_hello, M_tool, M_tool>>
    /\ pre = 2
    /\ Len(sink) = 2
    /\ sink[2].text = S_AutoSent \o UsedToolsMsg(2)
    /\ tools_count = 0

UpstreamFailureClasses ==
    {"CLIJSONDecodeError", "CLIConnectionError", "CLINotFoundError", "ProcessError"}

\* C17: once the upstream has raised a decode, connection, not-found or
\* process failure, messages stays the list of the messages processed before
\* it (nothing further is consumed), exactly one remediation message is sent
\* to the sink, and _execute_claude_code_query returns that list.
C17_UpstreamFailure ==
    (error.cls \in UpstreamFailureClasses) =>
        /\ failed_at >= 0
        /\ pc \in {"pending", "returned", "done"}
        /\ Len(messages) = failed_at
        /\ Len(emissions) = failed_at
        /\ Len(SinkFrom(sink, {"remediation"})) = 1
        /\ Len(SinkFrom(sink, {"error"})) = 0
        /\ pc \in {"returned", "done"} => returned = Some(messages)
        /\ pc = "pending" => returned = None

\* C17 witness: the upstream raised a decode failure after two messages and
\* the query returned those two
C17_Witness ==
    /\ error.cls = "CLIJSONDecodeError"
    /\ pc = "done"
    /\ returned = Some(<<M_hello, M_tool>>)
    /\ Len(SinkFrom(sink, {"remediation"})) = 1

\* the remediation messages the sink received
Remediations == SinkFrom(sink, {"remediation"})

\* C18: a not-found failure is answered with the not-found message and a
\* connection failure that is not a not-found failure with the
\* connection-error message.
C18_NotFoundMessage ==
    /\ error.cls = "CLINotFoundError" =>
         Remediations = AsSent(<<S_CliNotFoundMsg>>)
    /\ error.cls = "CLIConnectionError" =>
         Remediations = AsSent(<<S_ConnectionErrorMsg>>)

S_ExitCodeOpen ==
    <<"(", "e", "x", "i", "t", " ", "c", "o", "d", "e", ":", " ">>

\* C19: after a process failure the one remediation message contains
\* "(exit code: N)" for the exit code N the failure carries, and the query
\* returns the messages collected before the failure.
C19_ProcessExit ==
    (error.cls = "ProcessError") =>
        /\ Len(Remediations) = 1
        /\ Contains(Remediations[1],
                    S_ExitCodeOpen \o py_str(error.exit_code) \o <<")">>)
        /\ pc \in {"pending", "returned", "done"}
        /\ Len(messages) = failed_at
        /\ pc \in {"returned", "done"} => returned = Some(messages)

\* C19 witness: the process exited with 137 after one message, and the
\* query returned that message
C19_Witness ==
    /\ error = Exc("ProcessError", T_boom, PyInt(137))
    /\ pc = "returned"
    /\ returned = Some(<<M_hello>>)
    /\ Len(Remediations) = 1

\* a required setting that is missing (None) or empty
MissingOrEmpty(v) == v = PyNone \/ v = PyStr(<<>>)

\* the session's merged configuration lacks cwd or permission_mode
ConfigurationInvalid ==
    LET config == get_channel_config(channel_configs, ChannelId)
    IN  \/ MissingOrEmpty(DictGet(config, "cwd"))
        \/ MissingOrEmpty(DictGet(config, "permission_mode"))

\* C20: a session whose merged configuration lacks cwd or permission_mode
\* (missing or empty) never starts the upstream stream, consumes nothing,
\* sends no notifier emission and no completion notification, and ends
\* having sent exactly one message, the error message that carries the
\* ValueError's text.
C20_ConfigurationError ==
    (pc # "idle" /\ ConfigurationInvalid) =>
        /\ pc \in {"raised", "done"}
        /\ error.cls = "ValueError"
        /\ \/ StartsWith(error.message, S_MissingCwd)
           \/ StartsWith(error.message, S_MissingPermissionMode)
        /\ streams_started = 0
        /\ messages = <<>>
        /\ returned = None
        /\ SinkFrom(sink, {"emission", "finalize", "completion", "remediation"})
             = <<>>
        /\ pc = "raised" => sink = <<>>
        /\ pc = "done" =>
             /\ Len(sink) = 1
             /\ sink[1].src = "error"
             /\ Contains(sink[1].text, error.message)

\* C20 witness: the channel's own cwd is empty over a complete default, and
\* the session ended with the one error message
C20_Witness ==
    /\ pc = "done"
    /\ channel_configs = [default |-> FullConfig,
                          channels |-> [C1 |-> [cwd |-> PyStr(<<>>)]]]
    /\ Len(sink) = 1
    /\ sink[1].src = "error"
    /\ streams_started = 0

\* an exception is in flight in process_with_claude_code and neither of its
\* except clauses matches: it leaves the call
Escaped == pc = "raised" /\ OuterClause(error) = "propagate"

\* the messages the sink received from the failure handlers
FailureSends == SinkFrom(sink, {"remediation", "error"})

\* a chat_postMessage of the last operation raised
SendFailed == \E i \in DOMAIN posted : ~posted[i].ok

\* C21: no failure leaves process_with_claude_code.  Whatever the upstream
\* or the option creation raised, some except clause matches it; a session
\* that is not finished can always take its next step, so it ends; at the
\* end a failure has been answered by exactly one handler message; and a
\* failed sink send leaves the session where a successful one leaves it
\* (after a message: in the loop, or past it once the stream is exhausted).
C21_NoFailureEscapes ==
    /\ ~Escaped
    /\ pc # "done" => ENABLED SessionNext
    /\ (pc = "done" /\ error # NoError) => Len(FailureSends) = 1
    /\ error = NoError => FailureSends = <<>>
    /\ SendFailed =>
         /\ op = "process_message" =>
              pc \in {"stream", "pending"} /\ error = NoError
         /\ op = "get_pending_tools_notification" => pc = "returned"
         /\ op \in {"json_decode", "process"} => pc = "pending"
         /\ op \in {"connection", "cli_not_found"} => pc = "returned"
         /\ op \in {"send_completion_notification", "handle_configuration_error",
                    "handle_general_error"} => pc = "done"

\* C21 witness: an unclassified failure after two messages was handled by
\* the general handler, whose own send failed, and the session ended
C21_Witness ==
    /\ pc = "done"
    /\ error.cls = "RuntimeError"
    /\ failed_at = 2
    /\ op = "handle_general_error"
    /\ SendFailed
    /\ Len(FailureSends) = 1

\* C22: no message the failure handlers send to the sink contains the
\* exception's type name or the trace.
C22_NoInternalsInSink ==
    \A i \in DOMAIN sink :
        (sink[i].src \in {"remediation", "error"} /\ error # NoError) =>
            /\ ~Contains(sink[i].text, TypeName(error.cls))
            /\ ~Contains(sink[i].text, S_TracebackHead)

\* C23: when the post of the detailed error message fails, the fallback
\* message is posted next.
C23_FallbackAfterFailedSend ==
    (op \in {"handle_configuration_error", "handle_general_error"}
     /\ ~posted[1].ok) =>
        /\ Len(posted) = 2
        /\ posted[2].text
             = S_AutoSent \o S_SimpleErrorHead \o TypeName(error.cls)
               \o <<" ", "-", " ">> \o error.message

\* C25: query() is called at most once in a session, and once the upstream
\* has raised the session is never back in the loop nor before it and
\* consumes nothing more.
C25_SingleAttempt ==
    /\ streams_started <= 1
    /\ pc \in {"stream", "pending", "returned"} => streams_started = 1
    /\ failed_at >= 0 =>
         /\ streams_started = 1
         /\ pc \notin {"idle", "stream"}
         /\ Len(messages) = failed_at

\* C25 witness: a session ended after a connection failure that followed
\* one message, with one call of query()
C25_Witness ==
    /\ pc = "done"
    /\ error.cls = "CLIConnectionError"
    /\ failed_at = 1
    /\ Len(messages) = 1
    /\ streams_started = 1

\* C26: for every message process_message classifies Content (on the text
\* extracted with include_tool_info = False), the string it forwards, the
\* last of the returned list, is the text extracted with include_tool_info =
\* True; with no text (or an empty one) it forwards none.
C26_ContentForwardsFullText ==
    LastIsContent =>
        LET full == extract_message_text(msg, TRUE)
        IN  IF TruthyOpt(LastText)
            THEN /\ ret # <<>>
                 /\ Some(ret[Len(ret)]) = full
                 /\ \A i \in 1..(Len(ret) - 1) : IsToolCountMsg(ret[i])
            ELSE \A i \in DOMAIN ret : IsToolCountMsg(ret[i])

\* C26 witness: a result message with a text was forwarded after the count
C26_Witness ==
    /\ LastIsContent
    /\ msg = ResultMessage(T_success, 1200, 3, Some(T_hello))
    /\ pre = 2
    /\ ret = <<UsedToolsMsg(2), T_hello>>

\* the tools/metadata records of the last operation's log
AuditRecords == SelectSeq(log, LAMBDA l : l.event = "tools_metadata")

\* C27: for every message, either the emission is not empty and each of
\* its strings is sent and no tools/metadata record is written, or it is
\* empty and nothing is sent and exactly one tools/metadata record is
\* written, at debug level.
C27_SendOrAudit ==
    op = "process_message" =>
        \/ /\ ret # <<>>
           /\ Len(posted) = Len(ret)
           /\ AuditRecords = <<>>
        \/ /\ ret = <<>>
           /\ posted = <<>>
           /\ Len(AuditRecords) = 1
           /\ AuditRecords[1].level = "debug"

\* C27 witness: a system message was counted, nothing was sent, and the
\* only log line is the tools/metadata record
C27_Witness ==
    /\ op = "process_message"
    /\ msg = SystemMessage(T_init)
    /\ ret = <<>>
    /\ posted = <<>>
    /\ Len(log) = 1
    /\ log[1].event = "tools_metadata"

\* C28: when a send of a message's emission fails, every string of the
\* emission has still been posted exactly once (no retry), the counter is
\* what the notifier left (0 after a flush), no exception is in flight, the
\* session is still in its loop (or past it once the stream is exhausted) and
\* can consume the next message, and the sink has received each emitted
\* string once.
C28_SendFailureNotRetried ==
    (op = "process_message" /\ SendFailed) =>
        /\ [i \in 1..Len(posted) |-> posted[i].text] = AsSent(ret)
        /\ tools_count = process_message(pre, msg).tools_count
        /\ (\E i \in DOMAIN ret : IsToolCountMsg(ret[i])) => tools_count = 0
        /\ error = NoError
        /\ pc \in {"stream", "pending"}
        /\ (pc = "stream" /\ Len(messages) < MaxEvents) => ENABLED ConsumeMessage
        /\ SinkFrom(sink, AllSources) = AsSent(Flatten(emissions))
        /\ \E i \in DOMAIN log : log[i].event = "error_sending_thread_reply"

\* C28 witness: after a tool message, the post of "Used tools 1 times" failed
\* and the post of the content text succeeded; the counter is 0 and the
\* session is in its loop
C28_Witness ==
    /\ op = "process_message"
    /\ pc = "stream"
    /\ messages = <<M_tool, M_hello>>
    /\ ret = <<UsedToolsMsg(1), T_hello>>
    /\ ~posted[1].ok
    /\ posted[2].ok
    /\ tools_count = 0
    /\ Len(sink) = 2

\* C29: tools_count is from 0 to 9 between operations; a tool-count
\* message returned for a Tool-classified message reports 10, and one
\* returned for a Content-classified message or by
\* get_pending_tools_notification reports a value from 1 to 9.
C29_CounterRange ==
    /\ tools_count \in 0..(Threshold - 1)
    /\ LastIsTool => \A i \in DOMAIN ret : ret[i] = UsedToolsMsg(Threshold)
    /\ LastIsContent =>
         \A i \in DOMAIN ret :
             IsToolCountMsg(ret[i]) =>
                 \E n \in 1..(Threshold - 1) : ret[i] = UsedToolsMsg(n)
    /\ (op = "get_pending_tools_notification" /\ ~IsNone(ret)) =>
         \E n \in 1..(Threshold - 1) : Val(ret) = UsedToolsMsg(n)

\* C29 witness: get_pending_tools_notification reported 9
C29_Witness ==
    /\ op = "get_pending_tools_notification"
    /\ pre = 9
    /\ ret = Some(UsedToolsMsg(9))
    /\ tools_count = 0

\* C30: on a notifier that only process_message and
\* get_pending_tools_notification have changed, the Tool-classified messages
\* not yet reported in a "Used tools N times" message are exactly tools_count;
\* so after get_pending_tools_notification every one has been reported.
C30_Conservation ==
    /\ ~IsNone(unreported) => Val(unreported) = tools_count
    /\ (op = "get_pending_tools_notification" /\ ~IsNone(unreported)) =>
         Val(unreported) = 0

\* C30 witness: twelve tool messages in a row, ten of them reported by the
\* threshold flush and two pending
C30_Witness ==
    /\ toolRun = 12
    /\ unreported = Some(2)
    /\ tools_count = 2
    /\ LastIsTool

\* the messages session s has handed to its notifier, in order
Consumed(s) ==
    sess[s].messages \o (IF IsNone(sess[s].message) THEN <<>> ELSE <<Val(sess[s].message)>>)

\* the counter after each call and the strings sent by a session that runs
\* alone: its notifier starts at c, processes ms from message i on and, when
\* fin, gives its pending notification
RECURSIVE AloneFrom(_, _, _, _)
AloneFrom(ms, i, c, fin) ==
    IF i > Len(ms)
    THEN IF fin
         THEN LET r == get_pending_tools_notification(c)
              IN  [counters |-> <<r.tools_count>>,
                   sent |-> IF TruthyOpt(r.ret) THEN AsSent(<<Val(r.ret)>>) ELSE <<>>]
         ELSE [counters |-> <<>>, sent |-> <<>>]
    ELSE LET r == process_message(c, ms[i])
             rest == AloneFrom(ms, i + 1, r.tools_count, fin)
         IN  [counters |-> <<r.tools_count>> \o rest.counters,
              sent |-> AsSent(r.ret) \o rest.sent]

Alone(s) ==
    AloneFrom(Consumed(s), 1, notifier_init.tools_count,
              sess[s].pc \in {"finalizing", "done"})

Started == {s \in SessionIds : sess[s].pc # "idle"}

\* C24: with the steps of two sessions interleaved in any way, there is one
\* notifier per started session and no two sessions refer to the same one,
\* and each session's counter after each notifier call and the strings it
\* has sent (with those it is about to send) are those of the same session
\* run alone on the messages it has consumed.
C24_SessionsIndependent ==
    /\ Len(notifiers) = Cardinality(Started)
    /\ \A s \in Started : sess[s].notifier \in 1..Len(notifiers)
    /\ \A s \in Started : \A t \in Started :
         s # t => sess[s].notifier # sess[t].notifier
    /\ \A s \in SessionIds :
         /\ sess[s].counters = Alone(s).counters
         /\ sess[s].sent \o AsSent(sess[s].outbox) = Alone(s).sent
         /\ (s \in Started /\ sess[s].counters # <<>>) =>
              notifiers[sess[s].notifier] = sess[s].counters[Len(sess[s].counters)]

\* C24 witness: the notifier calls of the two sessions alternated; session
\* 1 saw a tool message and a text, session 2 two tool messages; both are done
\* and each sent what it sends alone
C24_Witness ==
    /\ schedule = <<1, 2, 1, 2>>
    /\ sess[1].pc = "done"
    /\ sess[2].pc = "done"
    /\ sess[1].messages = <<M_tool, M_hello>>
    /\ sess[2].messages = <<M_tool, M_tool>>
    /\ sess[1].sent = AsSent(<<UsedToolsMsg(1), T_hello>>)
    /\ sess[2].sent = AsSent(<<UsedToolsMsg(2)>>)
    /\ sess[1].counters = <<1, 0, 0>>
    /\ sess[2].counters = <<1, 2, 0>>

\* the texts of a list that are not "[Auto-sent] Used tools ..." messages
RECURSIVE NotToolCount(_)
NotToolCount(texts) ==
    IF texts = <<>> THEN <<>>
    ELSE (IF StartsWith(Head(texts), S_AutoSent \o S_UsedTools)
          THEN <<>> ELSE <<Head(texts)>>)
         \o NotToolCount(Tail(texts))

\* the non-empty texts of the messages of a list that are classified Content
RECURSIVE ContentTexts(_)
ContentTexts(ms) ==
    IF ms = <<>> THEN <<>>
    ELSE LET t == extract_message_text(Head(ms), FALSE)
         IN  (IF ~is_tools_message(Head(ms), t) /\ TruthyOpt(t)
              THEN <<Val(t)>> ELSE <<>>)
             \o ContentTexts(Tail(ms))

\* the texts, with and without tool information, of the messages of a list
\* that are classified Tool
ToolTexts(ms) ==
    {Val(extract_message_text(ms[i], b)) :
        <<i, b>> \in {x \in (DOMAIN ms) \X BOOLEAN :
                        /\ is_tools_message(ms[x[1]], extract_message_text(ms[x[1]], FALSE))
                        /\ TruthyOpt(extract_message_text(ms[x[1]], x[2]))}}

\* C31: in a session, the sends of the notifier's strings that are not
\* tool-count messages are, in order, the non-empty texts of the
\* Content-classified messages consumed so far, each once; while the stream is
\* consumed the sink has received nothing else; and no send, from any call
\* site, carries the text of a Tool-classified message.
C31_ContentPreserved ==
    /\ NotToolCount(SinkFrom(sink, {"emission", "finalize"}))
         = AsSent(ContentTexts(messages))
    /\ pc = "stream" =>
         NotToolCount(SinkFrom(sink, AllSources)) = AsSent(ContentTexts(messages))
    /\ \A i \in DOMAIN sink :
         \A t \in ToolTexts(messages) : sink[i].text # S_AutoSent \o t

\* C31 witness: two texts were forwarded in order around two messages
\* classified Tool, which have a text when tool information is included
C31_Witness ==
    /\ pc = "stream"
    /\ messages = <<M_hello, M_tool, M_tool, M_result>>
    /\ ToolTexts(messages) # {}
    /\ SinkFrom(sink, AllSources)
         = AsSent(<<T_hello, UsedToolsMsg(2), <<"a">>>>)

\* the counter of a notifier that has processed the messages of a list
PendingAfter(ms) ==
    LET c == AloneFrom(ms, 1, notifier_init.tools_count, FALSE).counters
    IN  IF c = <<>> THEN notifier_init.tools_count ELSE c[Len(c)]

\* the "[Auto-sent] Used tools ..." messages of a list of texts
RECURSIVE ToolCountOnly(_)
ToolCountOnly(texts) ==
    IF texts = <<>> THEN <<>>
    ELSE (IF StartsWith(Head(texts), S_AutoSent \o S_UsedTools)
          THEN <<Head(texts)>> ELSE <<>>)
         \o ToolCountOnly(Tail(texts))

\* the upstream raised while the stream was consumed
UpstreamFailed == error # NoError /\ failed_at >= 0

\* the sink's calls after those of the emissions
AfterEmissions == SubSeq(sink, Len(Flatten(emissions)) + 1, Len(sink))

\* C32: after the upstream raised with the counter at k, for a decode or a
\* process failure the next send is the remediation message and, when k > 0,
\* the one after it is "Used tools k times" (none when k = 0); for a
\* connection or not-found failure, or one no clause of
\* _execute_claude_code_query matches, get_pending_tools_notification is not
\* called and no tool-count message is sent after the failure.
C32_PendingOnFailure ==
    UpstreamFailed =>
        LET k == PendingAfter(messages)
        IN  IF ExceptClause(error) \in {"json_decode", "process"}
            THEN /\ Len(AfterEmissions) >= 1
                 /\ AfterEmissions[1].src = "remediation"
                 /\ pc = "pending" => Len(AfterEmissions) = 1 /\ tools_count = k
                 /\ (pc \in {"returned", "done"} /\ k > 0) =>
                      /\ Len(AfterEmissions) >= 2
                      /\ AfterEmissions[2]
                           = [text |-> S_AutoSent \o UsedToolsMsg(k), src |-> "finalize"]
                      /\ Len(SinkFrom(sink, {"finalize"})) = 1
                 /\ (pc \in {"returned", "done"} /\ k = 0) =>
                      SinkFrom(sink, {"finalize"}) = <<>>
            ELSE /\ final_emission = <<>>
                 /\ SinkFrom(sink, {"finalize"}) = <<>>
                 /\ ToolCountOnly(SinkFrom(AfterEmissions, AllSources)) = <<>>
                 /\ tools_count = k
                 /\ pc # "pending"

\* C32 witness: the process failed after two tool messages; the sink got
\* the process-error message, "Used tools 2 times" and the completion
C32_Witness ==
    /\ pc = "done"
    /\ error = Exc("ProcessError", T_boom, PyInt(1))
    /\ messages = <<M_tool, M_tool>>
    /\ Len(sink) = 3
    /\ sink[1].src = "remediation"
    /\ sink[2] = [text |-> S_AutoSent \o UsedToolsMsg(2), src |-> "finalize"]
    /\ sink[3].src = "completion"

\* the terminal messages the sink received
Terminals == SinkFrom(sink, {"completion", "error"})

\* _execute_claude_code_query returned: the stream was exhausted, or it
\* raised and one of the four except clauses caught the exception
QueryReturned ==
    \/ error = NoError
    \/ UpstreamFailed /\ ExceptClause(error) # "propagate"

\* what a finished session has sent: one terminal message, the last send;
\* the completion notification, after the remediation message if there is
\* one, when the query returned, and otherwise the detailed error message
TerminalMessage ==
    /\ Len(Terminals) = 1
    /\ sink[Len(sink)].src \in {"completion", "error"}
    /\ IF QueryReturned
       THEN /\ sink[Len(sink)]
                 = [text |-> S_AutoSent \o S_CompletionMsg, src |-> "completion"]
            /\ error # NoError =>
                 \E i \in 1..(Len(sink) - 1) : sink[i].src = "remediation"
            /\ returned = Some(messages)
       ELSE /\ sink[Len(sink)].src = "error"
            /\ StartsWith(sink[Len(sink)].text, S_AutoSent \o S_DetailHead)
            /\ returned = None

\* C33: every session on a stream of at most MaxFairEvents messages ends, and
\* when it has ended it has sent exactly one terminal message, as its last
\* send: the completion notification when the stream was exhausted or failed
\* with a failure one of the four clauses catches, the detailed error message
\* when the options could not be created or the failure was not caught there;
\* before the end no terminal message has been sent.
C33_OneTerminalMessage ==
    /\ <>(pc = "done")
    /\ [](pc = "done" => TerminalMessage)
    /\ [](pc # "done" => Terminals = <<>>)

\* C33 witness: a session whose stream raised a connection failure after
\* one message ended with the remediation and then the completion
C33_Witness ==
    /\ pc = "done"
    /\ error.cls = "CLIConnectionError"
    /\ messages = <<M_hello>>
    /\ Len(sink) = 3
    /\ sink[2].src = "remediation"
    /\ sink[3] = [text |-> S_AutoSent \o S_CompletionMsg, src |-> "completion"]

\* the effects of the monitor for its n-th event
RECURSIVE EffectsOf(_, _)
EffectsOf(effects, n) ==
    IF effects = <<>> THEN <<>>
    ELSE (IF Head(effects).n = n THEN <<Head(effects)>> ELSE <<>>)
         \o EffectsOf(Tail(effects), n)

\* the event has a bot_id, or its user is the Claude user
FromBotOrClaude(event) ==
    (~IsNone(event.bot_id)) \/ event.user = Some(CLAUDE_USER_ID)

\* C34: for an event that carries a bot_id or whose user is CLAUDE_USER_ID
\* the monitor sends nothing, acknowledgement included, and calls query() not
\* at all; for every other event the first thing it does is send the
\* acknowledgement, once, so a call of query() for the event comes after it,
\* and there is at most one such call.
C34_LoopPrevention ==
    \A n \in DOMAIN monitor.events :
        LET e == EffectsOf(monitor.effects, n)
        IN  IF FromBotOrClaude(monitor.events[n])
            THEN e = <<>>
            ELSE /\ Len(e) >= 1
                 /\ e[1].kind = "send"
                 /\ e[1].text = monitor_add_auto_send_prefix(S_Acknowledgement)
                 /\ \A i \in 2..Len(e) :
                      e[i].text # monitor_add_auto_send_prefix(S_Acknowledgement)
                 /\ Cardinality({i \in DOMAIN e : e[i].kind = "query"}) <= 1

\* C34 witness: the first event came from the Claude user and nothing was
\* done for it; the second came from another user, was acknowledged, and its
\* stream was started after the acknowledgement
C34_Witness ==
    /\ Len(monitor.events) = 2
    /\ monitor.events[1] = [bot_id |-> None, user |-> Some(CLAUDE_USER_ID)]
    /\ monitor.events[2] = [bot_id |-> None, user |-> Some(T_user)]
    /\ monitor.pc = "stream"
    /\ Len(monitor.effects) = 2
    /\ monitor.effects[1].n = 2
    /\ monitor.effects[1].kind = "send"
    /\ monitor.effects[2].kind = "query"

====
